---- MODULE Spec2Model ----
(***************************************************************************)
(* A model of kevm_pyk/solc_to_k.py: the Contract model built from a solc  *)
(* artifact, its instruction/source map, the ABI type classifier, the      *)
(* range predicate generator and the method signature canonicalizer.       *)
(*                                                                         *)
(* Python strings are modelled as sequences of one-character strings, so   *)
(* that startswith/endswith/split/int() are computed, not assumed.         *)
(***************************************************************************)
EXTENDS Integers, Sequences, FiniteSets, TLC

VARIABLES
    ph,             \* position of the running operation
    bytecode,       \* Contract.bytecode: hex digits, "0x" already removed
    raw_sourcemap,  \* Contract.raw_sourcemap: [some |-> BOOLEAN, text |-> chars]
    bs,             \* srcmap: the decoded byte list
    pc,             \* srcmap: scan position
    instr,          \* srcmap: instruction counter
    instr_to_pc,    \* srcmap: instruction index -> program counter
    srcmap,         \* the cached srcmap: [st |-> "unset"|"value"|"raised", tbl |-> table]
    type_label,     \* the type label handed to the classifier / predicate generator
    sort_res,       \* result of _evm_base_sort(type_label)
    rp_res,         \* result of _range_predicate(term, type_label)
    method_json,    \* the ABI entry handed to method_sig_from_abi
    msig,           \* result of method_sig_from_abi(method_json)
    contract_json,  \* the artifact handed to Contract(...)
    contract,       \* the constructed Contract
    sentences,      \* result of Contract.method_sentences
    by_name,        \* result of Contract.method_by_name(name)
    digest,         \* the cached Contract.digest
    cache_log       \* runs of the bodies of digest and srcmap, and reads of the two

vars == <<ph, bytecode, raw_sourcemap, bs, pc, instr, instr_to_pc, srcmap,
          type_label, sort_res, rp_res, method_json, msig,
          contract_json, contract, sentences, by_name, digest, cache_log>>

scanVars == <<bs, pc, instr, instr_to_pc>>
typeVars == <<type_label, sort_res, rp_res>>
sigVars == <<method_json, msig>>
contractVars == <<contract_json, contract, sentences, by_name, digest>>

(***************************************************************************)
(* Bounds of the model.                                                    *)
(***************************************************************************)
MaxBytes == 3       \* bytes in the enumerated bytecode unit
MaxReps == 5        \* repetitions of the unit
PadLen == 32        \* zero bytes optionally appended to the bytecode

(***************************************************************************)
(* Python string primitives.                                               *)
(***************************************************************************)
Range(f) == {f[x] : x \in DOMAIN f}

\* s.startswith(p)
StartsWith(s, p) == Len(s) >= Len(p) /\ SubSeq(s, 1, Len(p)) = p

\* s.endswith(p)
EndsWith(s, p) == Len(s) >= Len(p) /\ SubSeq(s, Len(s) - Len(p) + 1, Len(s)) = p

\* s[n:]
Drop(s, n) == SubSeq(s, n + 1, Len(s))

RECURSIVE Flatten(_)
Flatten(ss) == IF ss = <<>> THEN <<>> ELSE Head(ss) \o Flatten(Tail(ss))

\* sep.join(ss)
RECURSIVE Join(_, _)
Join(ss, sep) ==
    IF ss = <<>> THEN <<>>
    ELSE IF Len(ss) = 1 THEN ss[1]
    ELSE ss[1] \o sep \o Join(Tail(ss), sep)

\* s.split(c) for a one-character separator c: always at least one part
RECURSIVE SplitFrom(_, _, _)
SplitFrom(s, c, cur) ==
    IF s = <<>> THEN <<cur>>
    ELSE IF Head(s) = c THEN <<cur>> \o SplitFrom(Tail(s), c, <<>>)
    ELSE SplitFrom(Tail(s), c, Append(cur, Head(s)))

Split(s, c) == SplitFrom(s, c, <<>>)

Digits == <<"0", "1", "2", "3", "4", "5", "6", "7", "8", "9">>
HexDigits == Digits \o <<"a", "b", "c", "d", "e", "f">>
HexDigitsUpper == Digits \o <<"A", "B", "C", "D", "E", "F">>

IsDigit(c) == c \in Range(Digits)
IsHexDigit(c) == c \in Range(HexDigits) \cup Range(HexDigitsUpper)

DigitVal(c) == (CHOOSE k \in 1..10 : Digits[k] = c) - 1

HexDigitVal(c) ==
    IF c \in Range(HexDigits)
    THEN (CHOOSE k \in 1..16 : HexDigits[k] = c) - 1
    ELSE (CHOOSE k \in 1..16 : HexDigitsUpper[k] = c) - 1

RECURSIVE DigitsVal(_, _)
DigitsVal(s, acc) ==
    IF s = <<>> THEN acc ELSE DigitsVal(Tail(s), acc * 10 + DigitVal(Head(s)))

RECURSIVE HexVal(_, _)
HexVal(s, acc) ==
    IF s = <<>> THEN acc ELSE HexVal(Tail(s), acc * 16 + HexDigitVal(Head(s)))

\* int(s): an optional sign and at least one decimal digit; anything else
\* raises ValueError (ok = FALSE).  Blanks and underscores, which int() also
\* accepts, are outside the alphabets of this model.
PyInt(s) ==
    LET signed == s # <<>> /\ Head(s) \in {"-", "+"}
        body == IF signed THEN Tail(s) ELSE s
    IN  IF body # <<>> /\ \A k \in 1..Len(body) : IsDigit(body[k])
        THEN [ok |-> TRUE,
              val |-> IF signed /\ Head(s) = "-" THEN 0 - DigitsVal(body, 0)
                      ELSE DigitsVal(body, 0)]
        ELSE [ok |-> FALSE, val |-> 0]

\* int(s, 16) of a chunk of one or two hex digits
PyIntHex(s) ==
    IF s # <<>> /\ \A k \in 1..Len(s) : IsHexDigit(s[k])
    THEN [ok |-> TRUE, val |-> HexVal(s, 0)]
    ELSE [ok |-> FALSE, val |-> 0]

(***************************************************************************)
(* Contract.srcmap, first half: the bytecode scan.                         *)
(***************************************************************************)
\* [self.bytecode[i : i + 2] for i in range(0, len(self.bytecode), 2)]
HexChunks(code) ==
    [k \in 1..((Len(code) + 1) \div 2) |->
        SubSeq(code, 2 * k - 1, IF 2 * k <= Len(code) THEN 2 * k ELSE Len(code))]

\* bs = [int(chunk, 16) ...]; ok = FALSE when a chunk is no hex number
DecodeBytes(code) ==
    LET chunks == HexChunks(code)
    IN  IF \A k \in 1..Len(chunks) : PyIntHex(chunks[k]).ok
        THEN [ok |-> TRUE, val |-> [k \in 1..Len(chunks) |-> PyIntHex(chunks[k]).val]]
        ELSE [ok |-> FALSE, val |-> <<>>]

\* 0x60 <= b and b < 0x7F
IsPush(b) == 96 <= b /\ b < 127

\* the width one byte short
PushWidthShort(b) == b - 96

\* push_width = b - 0x5F
PushWidth(b) == b - 95

\* the loop body recording the program counter after advancing it
ScanBodyRecordsNext(bytes, st) ==
    LET b == bytes[st.pc + 1]
        pc1 == IF IsPush(b) THEN st.pc + PushWidth(b) ELSE st.pc
    IN  [pc |-> pc1 + 1,
         instr |-> st.instr + 1,
         instr_to_pc |-> (st.instr :> (pc1 + 1)) @@ st.instr_to_pc]

\* the loop body without its two increments
ScanBodyStuck(bytes, st) ==
    [pc |-> st.pc, instr |-> st.instr,
     instr_to_pc |-> (st.instr :> st.pc) @@ st.instr_to_pc]

\* One iteration of the while loop on state st = [pc, instr, instr_to_pc].
ScanBody(bytes, st) ==
    LET b == bytes[st.pc + 1]
        pc1 == IF IsPush(b) THEN st.pc + PushWidth(b) ELSE st.pc
    IN  [pc |-> pc1 + 1,
         instr |-> st.instr + 1,
         instr_to_pc |-> (st.instr :> st.pc) @@ st.instr_to_pc]

\* the whole while loop
RECURSIVE ScanLoop(_, _)
ScanLoop(bytes, st) ==
    IF st.pc < Len(bytes) THEN ScanLoop(bytes, ScanBody(bytes, st)) ELSE st

ScanStart == [pc |-> 0, instr |-> 0, instr_to_pc |-> <<>>]

(***************************************************************************)
(* The bytecodes enumerated: a unit of up to MaxBytes bytes, repeated up   *)
(* to MaxReps times or followed by PadLen zero bytes.                      *)
(***************************************************************************)
ByteTexts == {<<"0", "0">>, <<"5", "f">>, <<"6", "0">>, <<"6", "1">>,
              <<"7", "e">>, <<"7", "f">>, <<"8", "0">>}

RECURSIVE SeqsUpTo(_, _)
SeqsUpTo(S, n) ==
    IF n = 0 THEN {<<>>}
    ELSE LET shorter == SeqsUpTo(S, n - 1)
         IN  shorter \cup {Append(q, x) : q \in {r \in shorter : Len(r) = n - 1}, x \in S}

RECURSIVE Repeat(_, _)
Repeat(s, n) == IF n = 0 THEN <<>> ELSE s \o Repeat(s, n - 1)

Units == {Flatten(q) : q \in SeqsUpTo(ByteTexts, MaxBytes)}

Bytecodes ==
    {Repeat(u, n) : u \in Units, n \in 1..MaxReps}
        \cup {u \o Repeat(<<"0", "0">>, PadLen) : u \in Units}

\* An artifact: id and ast.absolutePath may be missing; layout says where
\* deployedBytecode and methodIdentifiers are held, under the key evm
\* ("evm") or at the top level ("top", the foundry artifacts).
NoArtifact == [id |-> [some |-> FALSE, val |-> 0],
               ast |-> [some |-> FALSE, absolutePath |-> [some |-> FALSE, text |-> <<>>]],
               layout |-> "evm",
               abi |-> <<>>, methodIdentifiers |-> <<>>, object |-> <<>>,
               sourceMap |-> [some |-> FALSE, text |-> <<>>],
               storage |-> [some |-> FALSE, entries |-> <<>>]]
NoContract == [st |-> "unset", err |-> "", msg |-> <<>>, name |-> <<>>,
               contract_id |-> 0, contract_path |-> <<>>, bytecode |-> <<>>,
               raw_sourcemap |-> [some |-> FALSE, text |-> <<>>],
               methods |-> <<>>, fields |-> <<>>]
NoSentences == [st |-> "unset", err |-> "", msg |-> <<>>, application |-> FALSE,
                productions |-> <<>>, rules |-> <<>>, aliases |-> <<>>]
NoLookup == [st |-> "unset", name |-> <<>>, method |-> <<>>]
NoDigest == [st |-> "unset", name |-> <<>>, items |-> <<>>]
NoMethod == [name |-> <<>>, inputs |-> <<>>]
NoSig == [st |-> "unset", val |-> <<>>, msg |-> <<>>]
NoSort == [st |-> "unset", sort |-> "", err |-> ""]
NoRangePredicate == [st |-> "unset", err |-> "",
                     pred |-> [op |-> "", width |-> 0, of |-> [fn |-> "", var |-> <<>>]]]
NoText == [some |-> FALSE, text |-> <<>>]
SomeText(t) == [some |-> TRUE, text |-> t]
Unset == [st |-> "unset", tbl |-> <<>>]
NoLog == [digest_runs |-> 0, srcmap_runs |-> 0, digest_reads |-> 0, srcmap_reads |-> 0]

(***************************************************************************)
(* SpecScan: the scan loop of Contract.srcmap, one iteration per step.     *)
(***************************************************************************)
InitScan ==
    /\ ph = "scan_enter"
    /\ bytecode \in Bytecodes
    /\ raw_sourcemap = SomeText(<<>>)
    /\ bs = <<>>
    /\ pc = 0
    /\ instr = 0
    /\ instr_to_pc = <<>>
    /\ srcmap = Unset
    /\ type_label = <<>> /\ sort_res = NoSort /\ rp_res = NoRangePredicate
    /\ method_json = NoMethod /\ msig = NoSig
    /\ contract_json = NoArtifact /\ contract = NoContract /\ sentences = NoSentences
    /\ by_name = NoLookup /\ digest = NoDigest
    /\ cache_log = NoLog

\* lines 177-181: the guard, and the byte list
ScanEnter ==
    /\ ph = "scan_enter"
    /\ IF Len(bytecode) > 0 /\ raw_sourcemap.some
       THEN IF DecodeBytes(bytecode).ok
            THEN /\ bs' = DecodeBytes(bytecode).val
                 /\ ph' = "scan"
            ELSE /\ bs' = bs
                 /\ ph' = "raised"
       ELSE /\ bs' = bs
            /\ ph' = "scan_skipped"
    /\ UNCHANGED <<bytecode, raw_sourcemap, pc, instr, instr_to_pc, srcmap>>
    /\ UNCHANGED <<typeVars, sigVars, contractVars>>
    /\ UNCHANGED cache_log

\* lines 182-189: one iteration of the while loop
ScanStep ==
    /\ ph = "scan"
    /\ pc < Len(bs)
    /\ LET st == ScanBody(bs, [pc |-> pc, instr |-> instr, instr_to_pc |-> instr_to_pc])
       IN  /\ pc' = st.pc
           /\ instr' = st.instr
           /\ instr_to_pc' = st.instr_to_pc
    /\ UNCHANGED <<ph, bytecode, raw_sourcemap, bs, srcmap>>
    /\ UNCHANGED <<typeVars, sigVars, contractVars>>
    /\ UNCHANGED cache_log

\* line 182: the loop condition fails
ScanExit ==
    /\ ph = "scan"
    /\ ~(pc < Len(bs))
    /\ ph' = "scan_done"
    /\ UNCHANGED <<bytecode, raw_sourcemap, scanVars, srcmap>>
    /\ UNCHANGED <<typeVars, sigVars, contractVars>>
    /\ UNCHANGED cache_log

NextScan == ScanEnter \/ ScanStep \/ ScanExit

SpecScan == InitScan /\ [][NextScan]_vars

\* the scan is a sequential loop: a step that can be taken is taken
SpecScanFair == SpecScan /\ WF_vars(NextScan)

(***************************************************************************)
(* Contract.srcmap, second half: the source-map decoder, and the cached    *)
(* property as a whole.                                                    *)
(***************************************************************************)
\* s, l, f, j, m = (0, 0, 0, '', 0)
DecodeStart == <<0, 0, 0, <<>>, 0>>

\* len(fields) > p - 1 and fields[p - 1] != ''   (p counted from 1)
Written(fields, p) == Len(fields) > p - 1 /\ fields[p] # <<>>

\* DecodeSeg with a field that is not written reset to its initial value
\* instead of inherited
DecodeSegNoCarry(carry, instr_srcmap) ==
    LET fields == Split(instr_srcmap, ":")
        num(p) == IF Written(fields, p) THEN PyInt(fields[p]).val ELSE DecodeStart[p]
        bad(p) == Written(fields, p) /\ ~PyInt(fields[p]).ok
    IN  IF bad(1) \/ bad(2) \/ bad(3) \/ bad(5)
        THEN [ok |-> FALSE, val |-> carry]
        ELSE [ok |-> TRUE,
              val |-> <<num(1), num(2), num(3),
                        IF Written(fields, 4) THEN fields[4] ELSE DecodeStart[4],
                        num(5)>>]

\* lines 195-206: one iteration of the for loop on the carried (s, l, f, j, m);
\* ok = FALSE when int() raises
DecodeSeg(carry, instr_srcmap) ==
    LET fields == Split(instr_srcmap, ":")
        num(p) == IF Written(fields, p) THEN PyInt(fields[p]).val ELSE carry[p]
        bad(p) == Written(fields, p) /\ ~PyInt(fields[p]).ok
    IN  IF bad(1) \/ bad(2) \/ bad(3) \/ bad(5)
        THEN [ok |-> FALSE, val |-> carry]
        ELSE [ok |-> TRUE,
              val |-> <<num(1), num(2), num(3),
                        IF Written(fields, 4) THEN fields[4] ELSE carry[4],
                        num(5)>>]

\* lines 194-206: the for loop from segment i (counted from 0) on
RECURSIVE DecodeLoop(_, _, _, _)
DecodeLoop(instrs_srcmap, i, carry, tbl) ==
    IF i >= Len(instrs_srcmap) THEN [st |-> "value", tbl |-> tbl]
    ELSE LET d == DecodeSeg(carry, instrs_srcmap[i + 1])
         IN  IF d.ok
             THEN DecodeLoop(instrs_srcmap, i + 1, d.val, (i :> d.val) @@ tbl)
             ELSE [st |-> "raised", tbl |-> <<>>]

\* lines 191-206
DecodeSourceMap(text) == DecodeLoop(Split(text, ";"), 0, DecodeStart, <<>>)


\* the property with the source map test of line 175 left out: the bytecode
\* is decoded whether or not there is a source map
SrcmapValueDecodesFirst(code, raw) ==
    IF Len(code) > 0
    THEN IF DecodeBytes(code).ok
         THEN IF raw.some THEN DecodeSourceMap(raw.text) ELSE [st |-> "value", tbl |-> <<>>]
         ELSE [st |-> "raised", tbl |-> <<>>]
    ELSE [st |-> "value", tbl |-> <<>>]

\* lines 175-208: the value of the property for a contract with this
\* bytecode and raw source map
SrcmapValue(code, raw) ==
    IF Len(code) > 0 /\ raw.some
    THEN IF DecodeBytes(code).ok
         THEN DecodeSourceMap(raw.text)
         ELSE [st |-> "raised", tbl |-> <<>>]
    ELSE [st |-> "value", tbl |-> <<>>]

(***************************************************************************)
(* SpecSrcmap: a constructed contract whose srcmap is read.                *)
(***************************************************************************)
MaxSrcmapBytes == 2     \* bytes of the bytecode
MaxSegs == 3            \* segments of the source map

SrcmapByteTexts == {<<"0", "0">>, <<"6", "0">>, <<"g", "0">>}

SrcmapBytecodes == {Flatten(q) : q \in SeqsUpTo(SrcmapByteTexts, MaxSrcmapBytes)}

SegTexts ==
    { <<>>,
      <<"1", ":", "2", ":", "0">>,
      <<"3", ":", "4", ":", "1">>,
      <<":", "5">>,
      <<"1", ":", "2", ":", "0", ":", "i", ":", "1">>,
      <<":", ":", ":", "o">>,
      <<":", ":", "-", "1", ":", ":", "2">>,
      <<"6", ":", "7", ":", "8", ":", "-", ":", "9", ":", "5">>,
      <<"x">> }

SourceMaps ==
    {NoText} \cup
    {SomeText(Join(q, <<";">>)) : q \in SeqsUpTo(SegTexts, MaxSegs) \ {<<>>}}

InitSrcmap ==
    /\ ph = "built"
    /\ bytecode \in SrcmapBytecodes
    /\ raw_sourcemap \in SourceMaps
    /\ bs = <<>>
    /\ pc = 0
    /\ instr = 0
    /\ instr_to_pc = <<>>
    /\ srcmap = Unset
    /\ type_label = <<>> /\ sort_res = NoSort /\ rp_res = NoRangePredicate
    /\ method_json = NoMethod /\ msig = NoSig
    /\ contract_json = NoArtifact /\ contract = NoContract /\ sentences = NoSentences
    /\ by_name = NoLookup /\ digest = NoDigest
    /\ cache_log = NoLog

\* lines 173-208: the first read of the cached property runs the function;
\* bs, pc, instr and instr_to_pc are its locals when it ends
Srcmap ==
    /\ ph = "built"
    /\ srcmap.st = "unset"
    /\ srcmap' = SrcmapValue(bytecode, raw_sourcemap)
    /\ IF Len(bytecode) > 0 /\ raw_sourcemap.some /\ DecodeBytes(bytecode).ok
       THEN LET bytes == DecodeBytes(bytecode).val
                st == ScanLoop(bytes, ScanStart)
            IN  /\ bs' = bytes
                /\ pc' = st.pc
                /\ instr' = st.instr
                /\ instr_to_pc' = st.instr_to_pc
       ELSE UNCHANGED scanVars
    /\ UNCHANGED <<ph, bytecode, raw_sourcemap>>
    /\ UNCHANGED <<typeVars, sigVars, contractVars>>
    /\ cache_log' = [cache_log EXCEPT !.srcmap_runs = @ + 1, !.srcmap_reads = @ + 1]

\* a later read returns the cached value (functools.cached_property)
SrcmapCached ==
    /\ ph = "built"
    /\ srcmap.st = "value"
    /\ ph' = "read"
    /\ UNCHANGED <<bytecode, raw_sourcemap, scanVars, srcmap>>
    /\ UNCHANGED <<typeVars, sigVars, contractVars>>
    /\ UNCHANGED cache_log

NextSrcmap == Srcmap \/ SrcmapCached

SpecSrcmap == InitSrcmap /\ [][NextSrcmap]_vars

(***************************************************************************)
(* The terms of kevm_pyk/kevm.py that the range predicates are built from, *)
(* and what they mean for an integer value (spec section 4.2).  A          *)
(* predicate is [op, width, of]: the constraint op of width `width` on the *)
(* term `of`, which is a variable or the length in bytes of a variable.    *)
(***************************************************************************)
KVariable(name) == [fn |-> "", var |-> name]
SizeBytes(of) == [fn |-> "sizeBytes", var |-> of.var]
NoTerm == KVariable(<<>>)
KTrue == [op |-> "TRUE", width |-> 0, of |-> NoTerm]
NonePred == [op |-> "None", width |-> 0, of |-> NoTerm]
Term == KVariable(<<"T">>)
RangeUInt(width, of) == [op |-> "rangeUInt", width |-> width, of |-> of]
RangeSInt(width, of) == [op |-> "rangeSInt", width |-> width, of |-> of]
RangeBytes(width, of) == [op |-> "rangeBytes", width |-> width, of |-> of]
RangeAddress(of) == [op |-> "rangeAddress", width |-> 0, of |-> of]
RangeBool(of) == [op |-> "rangeBool", width |-> 0, of |-> of]

\* An integer sign * (2^exp + off), off in {-1, 0}: the values at which a
\* power-of-two range starts and ends, for widths beyond machine integers.
BigInt(neg, exp, off) == [neg |-> neg, exp |-> exp, off |-> off]
IsZero(v) == v.exp = 0 /\ v.off = -1
IsOne(v) == ~v.neg /\ ((v.exp = 0 /\ v.off = 0) \/ (v.exp = 1 /\ v.off = -1))
\* 0 <= v
NonNegative(v) == ~v.neg \/ IsZero(v)
\* |v| < 2^n
MagBelowPow2(v, n) == v.exp < n \/ (v.exp = n /\ v.off = -1)
\* |v| <= 2^n
MagAtMostPow2(v, n) == v.exp <= n
\* 0 <= v < 2^n
InUnsigned(v, n) == NonNegative(v) /\ MagBelowPow2(v, n)
\* -2^(n-1) <= v < 2^(n-1)
InSigned(v, n) ==
    IF NonNegative(v) THEN MagBelowPow2(v, n - 1) ELSE MagAtMostPow2(v, n - 1)

\* whether value v of the constrained quantity satisfies the predicate
Holds(pred, v) ==
    CASE pred.op = "rangeUInt" -> InUnsigned(v, pred.width)
      [] pred.op = "rangeSInt" -> InSigned(v, pred.width)
      [] pred.op = "rangeBytes" -> InUnsigned(v, 8 * pred.width)
      [] pred.op = "rangeAddress" -> InUnsigned(v, 160)
      [] pred.op = "rangeBool" -> IsZero(v) \/ IsOne(v)
      [] pred.op = "TRUE" -> TRUE
      [] OTHER -> FALSE

(***************************************************************************)
(* The ABI type classifier and the range predicate generator.              *)
(***************************************************************************)
Unsupported == "Unsupported type"
InvalidLiteral == "invalid literal for int()"

\* the outcome of one of the three width checks: "skip" when the label does
\* not have the form, "raise" with the ValueError of int() or of the check,
\* or "ok"
WidthCheck(applies, width, supported) ==
    IF ~applies THEN [st |-> "skip", err |-> ""]
    ELSE IF ~width.ok THEN [st |-> "raise", err |-> InvalidLiteral]
    ELSE IF ~supported THEN [st |-> "raise", err |-> Unsupported]
    ELSE [st |-> "ok", err |-> ""]

\* the uint check with the multiple-of-8 test left out
UintWidthOkNoMod(width) == 0 < width /\ width <= 256

\* 0 < width and width <= 256 and width % 8 == 0
UintWidthOk(width) == 0 < width /\ width <= 256 /\ width % 8 = 0

IntWidthOk(width) == width = 256
BytesWidthOk(width) == width \in {4, 32}

\* lines 396-401
BytesCheck(type_label_) ==
    WidthCheck(StartsWith(type_label_, <<"b", "y", "t", "e", "s">>) /\ Len(type_label_) > 5
                   /\ ~EndsWith(type_label_, <<"]">>),
               PyInt(Drop(type_label_, 5)), BytesWidthOk(PyInt(Drop(type_label_, 5)).val))

\* lines 404-409
IntCheck(type_label_) ==
    WidthCheck(StartsWith(type_label_, <<"i", "n", "t">>) /\ ~EndsWith(type_label_, <<"]">>),
               PyInt(Drop(type_label_, 3)), IntWidthOk(PyInt(Drop(type_label_, 3)).val))

\* lines 412-417
UintCheck(type_label_) ==
    WidthCheck(StartsWith(type_label_, <<"u", "i", "n", "t">>) /\ ~EndsWith(type_label_, <<"]">>),
               PyInt(Drop(type_label_, 4)), UintWidthOk(PyInt(Drop(type_label_, 4)).val))

\* the classifier with the array test of the uint check left out
evm_base_sort_int_arrays(type_label_) ==
    LET checks == <<BytesCheck(type_label_), IntCheck(type_label_),
                    WidthCheck(StartsWith(type_label_, <<"u", "i", "n", "t">>),
                               PyInt(Drop(type_label_, 4)), UintWidthOk(PyInt(Drop(type_label_, 4)).val))>>
    IN  IF \E k \in 1..3 : checks[k].st = "raise"
        THEN [st |-> "raised", val |-> FALSE,
              err |-> checks[CHOOSE k \in 1..3 : checks[k].st = "raise"].err]
        ELSE [st |-> "value",
              val |-> type_label_ \in {<<"a", "d", "d", "r", "e", "s", "s">>, <<"b", "o", "o", "l">>}
                          \/ \E k \in 1..3 : checks[k].st = "ok",
              err |-> ""]

\* _evm_base_sort_int, lines 388-419.  The three prefixes exclude each
\* other, so at most one check applies.
evm_base_sort_int(type_label_) ==
    LET checks == <<BytesCheck(type_label_), IntCheck(type_label_), UintCheck(type_label_)>>
    IN  IF \E k \in 1..3 : checks[k].st = "raise"
        THEN [st |-> "raised", val |-> FALSE,
              err |-> checks[CHOOSE k \in 1..3 : checks[k].st = "raise"].err]
        ELSE [st |-> "value",
              val |-> type_label_ \in {<<"a", "d", "d", "r", "e", "s", "s">>, <<"b", "o", "o", "l">>}
                          \/ \E k \in 1..3 : checks[k].st = "ok",
              err |-> ""]

\* _evm_base_sort, lines 374-385
evm_base_sort(type_label_) ==
    LET int == evm_base_sort_int(type_label_)
    IN  IF int.st = "raised" THEN [st |-> "raised", sort |-> "", err |-> int.err]
        ELSE [st |-> "value",
              sort |-> IF int.val THEN "Int"
                       ELSE IF type_label_ = <<"b", "y", "t", "e", "s">> THEN "Bytes"
                       ELSE IF type_label_ = <<"s", "t", "r", "i", "n", "g">> THEN "String"
                       ELSE "K",
              err |-> ""]

\* _range_predicate_uint with the width of uint256 for every uintN
range_predicate_uint_256(of, type_label_) ==
    LET c == UintCheck(type_label_)
    IN  IF c.st = "raise" THEN [st |-> "raised", success |-> FALSE, pred |-> NonePred, err |-> c.err]
        ELSE IF c.st = "ok"
        THEN [st |-> "value", success |-> TRUE, pred |-> RangeUInt(256, of), err |-> ""]
        ELSE [st |-> "value", success |-> FALSE, pred |-> NonePred, err |-> ""]


\* _range_predicate_uint with the array test of line 446 left out
range_predicate_uint_arrays(of, type_label_) ==
    LET c == WidthCheck(StartsWith(type_label_, <<"u", "i", "n", "t">>),
                        PyInt(Drop(type_label_, 4)), UintWidthOk(PyInt(Drop(type_label_, 4)).val))
    IN  IF c.st = "raise" THEN [st |-> "raised", success |-> FALSE, pred |-> NonePred, err |-> c.err]
        ELSE IF c.st = "ok"
        THEN [st |-> "value", success |-> TRUE,
              pred |-> RangeUInt(PyInt(Drop(type_label_, 4)).val, of), err |-> ""]
        ELSE [st |-> "value", success |-> FALSE, pred |-> NonePred, err |-> ""]

\* _range_predicate_uint, lines 445-452
range_predicate_uint(of, type_label_) ==
    LET c == UintCheck(type_label_)
    IN  IF c.st = "raise" THEN [st |-> "raised", success |-> FALSE, pred |-> NonePred, err |-> c.err]
        ELSE IF c.st = "ok"
        THEN [st |-> "value", success |-> TRUE,
              pred |-> RangeUInt(PyInt(Drop(type_label_, 4)).val, of), err |-> ""]
        ELSE [st |-> "value", success |-> FALSE, pred |-> NonePred, err |-> ""]

\* _range_predicate with the range of bytes put on the term, not on its length
range_predicate_bytes_term(of, type_label_) ==
    LET u == range_predicate_uint(of, type_label_)
        value(p) == [st |-> "value", pred |-> p, err |-> ""]
    IN  IF u.st = "raised" THEN [st |-> "raised", pred |-> NonePred, err |-> u.err]
        ELSE IF u.success THEN value(u.pred)
        ELSE IF type_label_ = <<"a", "d", "d", "r", "e", "s", "s">> THEN value(RangeAddress(of))
        ELSE IF type_label_ = <<"b", "o", "o", "l">> THEN value(RangeBool(of))
        ELSE IF type_label_ = <<"b", "y", "t", "e", "s", "4">> THEN value(RangeBytes(4, of))
        ELSE IF type_label_ \in {<<"b", "y", "t", "e", "s", "3", "2">>, <<"u", "i", "n", "t", "2", "5", "6">>} THEN value(RangeUInt(256, of))
        ELSE IF type_label_ = <<"i", "n", "t", "2", "5", "6">> THEN value(RangeSInt(256, of))
        ELSE IF type_label_ = <<"b", "y", "t", "e", "s">> THEN value(RangeUInt(128, of))
        ELSE IF type_label_ = <<"s", "t", "r", "i", "n", "g">> THEN value(KTrue)
        ELSE value(NonePred)

\* _range_predicate, lines 422-442: pred = NonePred is the None result
range_predicate(of, type_label_) ==
    LET u == range_predicate_uint(of, type_label_)
        value(p) == [st |-> "value", pred |-> p, err |-> ""]
    IN  IF u.st = "raised" THEN [st |-> "raised", pred |-> NonePred, err |-> u.err]
        ELSE IF u.success THEN value(u.pred)
        ELSE IF type_label_ = <<"a", "d", "d", "r", "e", "s", "s">> THEN value(RangeAddress(of))
        ELSE IF type_label_ = <<"b", "o", "o", "l">> THEN value(RangeBool(of))
        ELSE IF type_label_ = <<"b", "y", "t", "e", "s", "4">> THEN value(RangeBytes(4, of))
        ELSE IF type_label_ \in {<<"b", "y", "t", "e", "s", "3", "2">>, <<"u", "i", "n", "t", "2", "5", "6">>} THEN value(RangeUInt(256, of))
        ELSE IF type_label_ = <<"i", "n", "t", "2", "5", "6">> THEN value(RangeSInt(256, of))
        ELSE IF type_label_ = <<"b", "y", "t", "e", "s">> THEN value(RangeUInt(128, SizeBytes(of)))
        ELSE IF type_label_ = <<"s", "t", "r", "i", "n", "g">> THEN value(KTrue)
        ELSE value(NonePred)

(***************************************************************************)
(* SpecTypes: the classifier and the predicate generator applied to a type *)
(* label: a base name, then a width text, then an array suffix.            *)
(***************************************************************************)
MaxWidth == 264     \* largest width numeral enumerated

\* str(n) for n >= 0
RECURSIVE PyStrNat(_)
PyStrNat(n) == IF n < 10 THEN <<Digits[n + 1]>> ELSE Append(PyStrNat(n \div 10), Digits[(n % 10) + 1])

\* str(n)
PyStr(n) == IF n < 0 THEN <<"-">> \o PyStrNat(0 - n) ELSE PyStrNat(n)

BaseNames == {<<"u", "i", "n", "t">>, <<"i", "n", "t">>, <<"b", "y", "t", "e", "s">>, <<"a", "d", "d", "r", "e", "s", "s">>, <<"b", "o", "o", "l">>, <<"s", "t", "r", "i", "n", "g">>,
              <<"t", "u", "p", "l", "e">>, <<"f", "u", "n", "c", "t", "i", "o", "n">>, <<"f", "i", "x", "e", "d">>, <<>>}

WidthTexts == {PyStr(n) : n \in 0..MaxWidth}
                  \cup {<<>>, <<"x">>, <<"0", "8">>, <<"0", "2", "5", "6">>, <<"8", "x">>, <<"1", "2", "8", "x", "1", "8">>}

ArraySuffixes == {<<>>, <<"[", "]">>, <<"[", "2", "]">>, <<"[", "2", "]", "[", "]">>}

TypeLabels == {b \o w \o a : b \in BaseNames, w \in WidthTexts, a \in ArraySuffixes}

InitTypes ==
    /\ ph = "types"
    /\ type_label \in TypeLabels
    /\ sort_res = NoSort
    /\ rp_res = NoRangePredicate
    /\ bytecode = <<>> /\ raw_sourcemap = NoText
    /\ bs = <<>> /\ pc = 0 /\ instr = 0 /\ instr_to_pc = <<>> /\ srcmap = Unset
    /\ method_json = NoMethod /\ msig = NoSig
    /\ contract_json = NoArtifact /\ contract = NoContract /\ sentences = NoSentences
    /\ by_name = NoLookup /\ digest = NoDigest
    /\ cache_log = NoLog

\* a call _evm_base_sort(type_label)
EvmBaseSort ==
    /\ ph = "types"
    /\ sort_res.st = "unset"
    /\ sort_res' = evm_base_sort(type_label)
    /\ UNCHANGED <<ph, bytecode, raw_sourcemap, scanVars, srcmap, type_label, rp_res>>
    /\ UNCHANGED <<sigVars, contractVars>>
    /\ UNCHANGED cache_log

\* a call _range_predicate(term, type_label)
RangePredicate ==
    /\ ph = "types"
    /\ rp_res.st = "unset"
    /\ rp_res' = range_predicate(Term, type_label)
    /\ UNCHANGED <<ph, bytecode, raw_sourcemap, scanVars, srcmap, type_label, sort_res>>
    /\ UNCHANGED <<sigVars, contractVars>>
    /\ UNCHANGED cache_log

NextTypes == EvmBaseSort \/ RangePredicate

SpecTypes == InitTypes /\ [][NextTypes]_vars

(***************************************************************************)
(* The method signature canonicalizer.  An ABI input is                    *)
(* [type |-> chars, components |-> inputs]; components is empty for a type *)
(* that is no tuple.                                                       *)
(***************************************************************************)
\* repr(s) of a string without quotes in it
PyRepr(s) == <<"'">> \o s \o <<"'">>

\* the text of the ValueError of int(s) and int(s, 16)
IntErrorMessage(s, base) ==
    <<"i", "n", "v", "a", "l", "i", "d", " ", "l", "i", "t", "e", "r", "a", "l", " ", "f", "o", "r", " ", "i", "n", "t", "(", ")", " ", "w", "i", "t", "h", " ", "b", "a", "s", "e", " ">> \o PyStr(base) \o <<":", " ">> \o PyRepr(s)

\* re.match(r'.+\[.*\]', base_type): a '[' after at least one character and
\* a ']' after it
IsArrayType(t) ==
    \E i \in 2..Len(t) : t[i] = "[" /\ \E j \in (i + 1)..Len(t) : t[j] = "]"

\* s[:-1]
DropLast(s) == IF s = <<>> THEN <<>> ELSE SubSeq(s, 1, Len(s) - 1)

\* lines 475-478: the suffix appended after the closing parenthesis
EmittedSuffix(is_array, is_sized, array_size) ==
    IF is_array /\ ~is_sized THEN <<"[", "]">>
    ELSE IF is_array /\ is_sized THEN <<"[">> \o PyStr(array_size) \o <<"]">>
    ELSE <<>>

\* lines 469-474 with the components joined in reverse order
TupleTextReversed(parts) ==
    <<"(">> \o Join([k \in 1..Len(parts) |-> parts[Len(parts) + 1 - k]], <<",">>) \o <<")">>

\* lines 469-474: '(' + the components joined by ',' + ')'
TupleText(parts) == <<"(">> \o Join(parts, <<",">>) \o <<")">>

\* the first of the results that is a raise
FirstRaisedAt(results) ==
    CHOOSE k \in 1..Len(results) :
        results[k].st = "raised" /\ \A j \in 1..(k - 1) : results[j].st # "raised"

\* unparse_input, lines 456-481; st = "raised" when int(array_size_str) raises,
\* msg the text of the ValueError.  The size of the input is read before its
\* components, and the components in their order.
RECURSIVE unparse_input(_)
unparse_input(input_json) ==
    LET declared == input_json.type
        is_array == IsArrayType(declared)
        pieces == Split(declared, "[")
        array_size_str == IF is_array THEN DropLast(pieces[2]) ELSE <<>>
        is_sized == is_array /\ array_size_str # <<>>
        array_size == PyInt(array_size_str)
        base_type == IF is_array THEN pieces[1] ELSE declared
        comps == [k \in 1..Len(input_json.components) |->
                     unparse_input(input_json.components[k])]
    IN  IF is_sized /\ ~array_size.ok
        THEN [st |-> "raised", val |-> <<>>, msg |-> IntErrorMessage(array_size_str, 10)]
        ELSE IF base_type = <<"t", "u", "p", "l", "e">>
        THEN IF \E k \in 1..Len(comps) : comps[k].st = "raised"
             THEN comps[FirstRaisedAt(comps)]
             ELSE [st |-> "value",
                   val |-> TupleText([k \in 1..Len(comps) |-> comps[k].val])
                               \o EmittedSuffix(is_array, is_sized, array_size.val),
                   msg |-> <<>>]
        ELSE [st |-> "value", val |-> declared, msg |-> <<>>]

\* method_sig_from_abi, lines 483-489
method_sig_from_abi(method_json_) ==
    LET args == [k \in 1..Len(method_json_.inputs) |-> unparse_input(method_json_.inputs[k])]
    IN  IF \E k \in 1..Len(args) : args[k].st = "raised"
        THEN args[FirstRaisedAt(args)]
        ELSE [st |-> "value",
              val |-> method_json_.name \o <<"(">>
                          \o Join([k \in 1..Len(args) |-> args[k].val], <<",">>) \o <<")">>,
              msg |-> <<>>]

(***************************************************************************)
(* SpecSig: method_sig_from_abi applied to an ABI entry.  The entries      *)
(* enumerated have up to MaxInputs inputs; one of them may be a tuple,     *)
(* whose components are such a list again, MaxDepth levels deep.           *)
(***************************************************************************)
MaxInputs == 2      \* inputs of a method, components of a tuple
MaxDepth == 2       \* nesting depth of tuples

Scalar(t) == [type |-> t, components |-> <<>>]
Tuple(suffix, components) == [type |-> <<"t", "u", "p", "l", "e">> \o suffix, components |-> components]

LeafTypes == {<<"u", "i", "n", "t", "2", "5", "6">>, <<"a", "d", "d", "r", "e", "s", "s", "[", "]">>}
SiblingTypes == {<<"a", "d", "d", "r", "e", "s", "s">>}
TupleSuffixes == {<<>>, <<"[", "]">>, <<"[", "2", "]">>, <<"[", "2", "]", "[", "]">>, <<"[", "]", "[", "3", "]">>}
InnerSuffixes == {<<>>, <<"[", "]">>}

LeafLists == SeqsUpTo({Scalar(t) : t \in LeafTypes}, MaxInputs)

\* the input lists of nesting depth up to d: an input is a tuple, with the
\* suffixes sfx, whose components are a list of depth d - 1
RECURSIVE InputLists(_, _)
InputLists(d, sfx) ==
    IF d = 0 THEN LeafLists
    ELSE LET tuples == {Tuple(x, c) : x \in sfx, c \in InputLists(d - 1, InnerSuffixes) \ {<<>>}}
             siblings == SeqsUpTo({Scalar(t) : t \in SiblingTypes}, MaxInputs - 1)
         IN  LeafLists \cup
             {r.before \o <<r.h>> \o r.after :
                 r \in {x \in [h : tuples, before : siblings, after : siblings] :
                            Len(x.before) + Len(x.after) < MaxInputs}}

MethodJsons == {[name |-> <<"f">>, inputs |-> q] : q \in InputLists(MaxDepth, TupleSuffixes)}

InitSig ==
    /\ ph = "sig"
    /\ method_json \in MethodJsons
    /\ msig = NoSig
    /\ bytecode = <<>> /\ raw_sourcemap = NoText
    /\ bs = <<>> /\ pc = 0 /\ instr = 0 /\ instr_to_pc = <<>> /\ srcmap = Unset
    /\ type_label = <<>> /\ sort_res = NoSort /\ rp_res = NoRangePredicate
    /\ contract_json = NoArtifact /\ contract = NoContract /\ sentences = NoSentences
    /\ by_name = NoLookup /\ digest = NoDigest
    /\ cache_log = NoLog

\* a call method_sig_from_abi(method_json)
MethodSig ==
    /\ ph = "sig"
    /\ msig.st = "unset"
    /\ msig' = method_sig_from_abi(method_json)
    /\ ph' = "sig_done"
    /\ UNCHANGED <<bytecode, raw_sourcemap, scanVars, srcmap, typeVars, method_json>>
    /\ UNCHANGED contractVars
    /\ UNCHANGED cache_log

NextSig == MethodSig

SpecSig == InitSig /\ [][NextSig]_vars

(***************************************************************************)
(* Contract.__init__ and Contract.Method.                                  *)
(* The artifact is [abi, methodIdentifiers, object, sourceMap, storage]:   *)
(* the ABI entries, evm.methodIdentifiers as a sequence of                 *)
(* <<signature, hex id>> pairs, evm.deployedBytecode.object, the optional  *)
(* evm.deployedBytecode.sourceMap and the optional storageLayout.storage   *)
(* as <<label, slot text>> pairs.                                          *)
(***************************************************************************)
\* the characters of the model in code point order
CodePoints == <<"(", ")", "+", ",", "-">> \o Digits \o <<":", ";">>
                  \o <<"A", "B", "C", "D", "E", "F", "I", "L", "P", "U", "[", "]", "_">>
                  \o <<"a", "b", "c", "d", "e", "f", "g", "h", "i", "j", "k", "l", "m",
                       "n", "o", "p", "q", "r", "s", "t", "u", "v", "w", "x", "y", "z">>

CodePoint(c) == CHOOSE k \in 1..Len(CodePoints) : CodePoints[k] = c

\* a < b for Python strings
RECURSIVE StrLess(_, _)
StrLess(a, b) ==
    IF b = <<>> THEN FALSE
    ELSE IF a = <<>> THEN TRUE
    ELSE IF Head(a) = Head(b) THEN StrLess(Tail(a), Tail(b))
    ELSE CodePoint(Head(a)) < CodePoint(Head(b))

\* a replace that leaves the text as it is
ReplaceCharNone(s, old, new) == s

\* s.replace(old, new) for a one-character old
RECURSIVE ReplaceChar(_, _, _)
ReplaceChar(s, old, new) ==
    IF s = <<>> THEN <<>>
    ELSE (IF Head(s) = old THEN new ELSE <<Head(s)>>) \o ReplaceChar(Tail(s), old, new)

\* s.replace('0x', '')
RECURSIVE Remove0x(_)
Remove0x(s) ==
    IF Len(s) < 2 THEN s
    ELSE IF s[1] = "0" /\ s[2] = "x" THEN Remove0x(Drop(s, 2))
    ELSE <<Head(s)>> \o Remove0x(Tail(s))

\* int(s, 16) of a selector: hex digits, with an optional 0x prefix
PyIntHexAny(s) ==
    LET digits == IF StartsWith(s, <<"0", "x">>) THEN Drop(s, 2) ELSE s
    IN  PyIntHex(digits)


\* Method.__init__ with payable set for every mutability but nonpayable
MethodPayableUnlessNonpayable(msig_, id, abi, contract_name) ==
    [signature |-> msig_,
     name |-> abi.name,
     id |-> id,
     arg_names |-> [i \in 1..Len(abi.inputs) |->
                       <<"V">> \o PyStr(i - 1) \o <<"_">>
                           \o ReplaceChar(abi.inputs[i].name, "-", <<"_">>)],
     arg_types |-> [i \in 1..Len(abi.inputs) |-> abi.inputs[i].type],
     contract_name |-> contract_name,
     payable |-> abi.stateMutability # "nonpayable"]

\* Method.__init__, lines 46-55
Method(msig_, id, abi, contract_name) ==
    [signature |-> msig_,
     name |-> abi.name,
     id |-> id,
     arg_names |-> [i \in 1..Len(abi.inputs) |->
                       <<"V">> \o PyStr(i - 1) \o <<"_">>
                           \o ReplaceChar(abi.inputs[i].name, "-", <<"_">>)],
     arg_types |-> [i \in 1..Len(abi.inputs) |-> abi.inputs[i].type],
     contract_name |-> contract_name,
     payable |-> abi.stateMutability = "payable"]

\* sorted(..., key=signature) is stable: a method goes after the methods
\* whose signature is not greater
RECURSIVE InsertBySignature(_, _)
InsertBySignature(sorted, m) ==
    IF sorted = <<>> THEN <<m>>
    ELSE IF StrLess(m.signature, Head(sorted).signature) THEN <<m>> \o sorted
    ELSE <<Head(sorted)>> \o InsertBySignature(Tail(sorted), m)

\* the methods left in the order of the ABI
SortBySignatureNot(ms) == ms

RECURSIVE SortBySignature(_)
SortBySignature(ms) ==
    IF ms = <<>> THEN <<>>
    ELSE InsertBySignature(SortBySignature(SubSeq(ms, 1, Len(ms) - 1)), ms[Len(ms)])

\* the lookup with a selector of zero for a signature that has no entry
LookupOrZero(pairs, key) ==
    IF \E k \in 1..Len(pairs) : pairs[k][1] = key
    THEN [found |-> TRUE, val |-> pairs[CHOOSE k \in 1..Len(pairs) : pairs[k][1] = key][2]]
    ELSE [found |-> TRUE, val |-> <<"0", "0">>]

\* evm['methodIdentifiers'][msig]: found = FALSE is the KeyError.  A JSON
\* object holds a key once.
Lookup(pairs, key) ==
    IF \E k \in 1..Len(pairs) : pairs[k][1] = key
    THEN [found |-> TRUE, val |-> pairs[CHOOSE k \in 1..Len(pairs) : pairs[k][1] = key][2]]
    ELSE [found |-> FALSE, val |-> <<>>]

\* lines 147-154: the methods of the ABI entries from entry k on, in ABI
\* order; st = "raised" with the error of the first entry that fails, msg
\* the text of that error
RECURSIVE CollectMethods(_, _, _, _)
CollectMethods(abi, ids, contract_name, k) ==
    IF k > Len(abi) THEN [st |-> "value", err |-> "", msg |-> <<>>, val |-> <<>>]
    ELSE IF abi[k].type # "function" THEN CollectMethods(abi, ids, contract_name, k + 1)
    ELSE LET sig == method_sig_from_abi(abi[k])
             hex == Lookup(ids, sig.val)
             mid == PyIntHexAny(hex.val)
             rest == CollectMethods(abi, ids, contract_name, k + 1)
             failed(err, msg) == [st |-> "raised", err |-> err, msg |-> msg, val |-> <<>>]
         IN  IF sig.st = "raised"    \* int(array_size_str) in unparse_input
             THEN failed("ValueError", sig.msg)
             ELSE IF ~hex.found THEN failed("KeyError", PyRepr(sig.val))
             ELSE IF ~mid.ok THEN failed("ValueError", IntErrorMessage(hex.val, 16))
             ELSE IF rest.st = "raised" THEN rest
             ELSE [st |-> "value", err |-> "", msg |-> <<>>,
                   val |-> <<Method(sig.val, mid.val, abi[k], contract_name)>> \o rest.val]

\* the field loop with a later entry overwriting an earlier one
RECURSIVE CollectFieldsLastWins(_, _)
CollectFieldsLastWins(entries, fields) ==
    IF entries = <<>> THEN fields
    ELSE LET l == Head(entries)[1]
             s == PyInt(Head(entries)[2]).val
         IN  CollectFieldsLastWins(Tail(entries), (l :> s) @@ fields)

\* lines 160-166: the first slot of every label
RECURSIVE CollectFields(_, _)
CollectFields(entries, fields) ==
    IF entries = <<>> THEN fields
    ELSE LET l == Head(entries)[1]
             s == PyInt(Head(entries)[2]).val
         IN  CollectFields(Tail(entries),
                 IF l \in DOMAIN fields THEN fields ELSE (l :> s) @@ fields)

\* Contract.__init__, lines 134-167.  Lines 138-143 read id,
\* ast.absolutePath and, under evm or at the top level as foundry says,
\* deployedBytecode; a key that is missing is a KeyError.
ContractInit(contract_name, json, foundry) ==
    LET ms == CollectMethods(json.abi, json.methodIdentifiers, contract_name, 1)
        slots_ok == \A k \in 1..Len(json.storage.entries) :
                        PyInt(json.storage.entries[k][2]).ok
        bad_slot == json.storage.entries[CHOOSE k \in 1..Len(json.storage.entries) :
                                            ~PyInt(json.storage.entries[k][2]).ok][2]
        failed(err, msg) == [NoContract EXCEPT !.st = "raised", !.err = err, !.msg = msg]
    IN  IF ~json.id.some THEN failed("KeyError", PyRepr(<<"i", "d">>))
        ELSE IF ~json.ast.some THEN failed("KeyError", PyRepr(<<"a", "s", "t">>))
        ELSE IF ~json.ast.absolutePath.some THEN failed("KeyError", PyRepr(<<"a", "b", "s", "o", "l", "u", "t", "e", "P", "a", "t", "h">>))
        ELSE IF ~foundry /\ json.layout # "evm" THEN failed("KeyError", PyRepr(<<"e", "v", "m">>))
        ELSE IF foundry /\ json.layout # "top"
        THEN failed("KeyError", PyRepr(<<"d", "e", "p", "l", "o", "y", "e", "d", "B", "y", "t", "e", "c", "o", "d", "e">>))
        ELSE IF ms.st = "raised" THEN failed(ms.err, ms.msg)
        ELSE IF json.storage.some /\ ~slots_ok
        THEN failed("ValueError", IntErrorMessage(bad_slot, 10))
        ELSE [st |-> "built", err |-> "", msg |-> <<>>,
              name |-> contract_name,
              contract_id |-> json.id.val,
              contract_path |-> json.ast.absolutePath.text,
              bytecode |-> Remove0x(json.object),
              raw_sourcemap |-> json.sourceMap,
              methods |-> SortBySignature(ms.val),
              fields |-> IF json.storage.some
                         THEN CollectFields(json.storage.entries, <<>>)
                         ELSE <<>>]

(***************************************************************************)
(* Method.klabel, Method.production, Method.rule and                       *)
(* Contract.method_sentences.                                              *)
(***************************************************************************)
\* Method.klabel, lines 57-60
klabel(m) ==
    <<"m", "e", "t", "h", "o", "d", "_">> \o m.contract_name \o <<"_">> \o m.name \o <<"_">> \o Join(m.arg_types, <<"_">>)

\* the text after the base name that the width checks hand to int()
WidthText(type_label_) ==
    IF StartsWith(type_label_, <<"b", "y", "t", "e", "s">>) THEN Drop(type_label_, 5)
    ELSE IF StartsWith(type_label_, <<"u", "i", "n", "t">>) THEN Drop(type_label_, 4)
    ELSE Drop(type_label_, 3)

\* the text of the ValueError raised on a type label: lines 399, 407, 415
\* (what = 'evm base sort'), line 449 (what = 'range predicate'), or int()
ErrorMessage(err, what, type_label_) ==
    IF err = Unsupported
    THEN <<"U", "n", "s", "u", "p", "p", "o", "r", "t", "e", "d", " ">> \o what \o <<" ", "t", "y", "p", "e", ":", " ">> \o type_label_
    ELSE IntErrorMessage(WidthText(type_label_), 10)

\* the first position of a sequence of results that raised
FirstRaised(results) ==
    CHOOSE k \in 1..Len(results) :
        /\ results[k].st = "raised"
        /\ \A j \in 1..(k - 1) : results[j].st # "raised"

\* Method.production, lines 66-82: the sort of every argument, in order
production(m) ==
    LET sorts == [i \in 1..Len(m.arg_types) |-> evm_base_sort(m.arg_types[i])]
    IN  IF \E i \in 1..Len(sorts) : sorts[i].st = "raised"
        THEN [st |-> "raised", klabel |-> klabel(m), name |-> m.name,
              sorts |-> <<>>, types |-> <<>>,
              msg |-> ErrorMessage(sorts[FirstRaised(sorts)].err, <<"e", "v", "m", " ", "b", "a", "s", "e", " ", "s", "o", "r", "t">>,
                                   m.arg_types[FirstRaised(sorts)])]
        ELSE [st |-> "value", klabel |-> klabel(m), name |-> m.name, msg |-> <<>>,
              sorts |-> [i \in 1..Len(sorts) |-> sorts[i].sort],
              types |-> m.arg_types]

\* Method.rule, lines 84-102, from argument i on: the loop returns None at
\* the first argument without a predicate and stops at the first that raises
RECURSIVE RuleFrom(_, _, _)
RuleFrom(m, i, conjuncts) ==
    IF i > Len(m.arg_types)
    THEN [st |-> "value", klabel |-> klabel(m), ensures |-> conjuncts, msg |-> <<>>]
    ELSE LET rp == range_predicate(KVariable(m.arg_names[i]), m.arg_types[i])
         IN  IF rp.st = "raised"
             THEN [st |-> "raised", klabel |-> klabel(m), ensures |-> <<>>,
                   msg |-> ErrorMessage(rp.err, <<"r", "a", "n", "g", "e", " ", "p", "r", "e", "d", "i", "c", "a", "t", "e">>, m.arg_types[i])]
             ELSE IF rp.pred = NonePred
             THEN [st |-> "None", klabel |-> klabel(m), ensures |-> <<>>, msg |-> <<>>]
             ELSE RuleFrom(m, i + 1, Append(conjuncts, rp.pred))

\* Method.rule that raises where an argument has no predicate
RECURSIVE RuleFromRaising(_, _, _)
RuleFromRaising(m, i, conjuncts) ==
    IF i > Len(m.arg_types)
    THEN [st |-> "value", klabel |-> klabel(m), ensures |-> conjuncts, msg |-> <<>>]
    ELSE LET rp == range_predicate(KVariable(m.arg_names[i]), m.arg_types[i])
         IN  IF rp.st = "raised" \/ rp.pred = NonePred
             THEN [st |-> "raised", klabel |-> klabel(m), ensures |-> <<>>, msg |-> <<>>]
             ELSE RuleFromRaising(m, i + 1, Append(conjuncts, rp.pred))

method_rule_raising(m) == RuleFromRaising(m, 1, <<>>)

\* Method.rule, lines 84-102
method_rule(m) == RuleFrom(m, 1, <<>>)

\* the subsequence of s at the (increasing) positions that satisfy keep
RECURSIVE SelectPositions(_, _, _)
SelectPositions(s, keep, k) ==
    IF k > Len(s) THEN <<>>
    ELSE (IF keep[k] THEN <<s[k]>> ELSE <<>>) \o SelectPositions(s, keep, k + 1)

\* Contract.method_sentences, lines 272-285: the method application
\* production, every production, every rule that is not None and every
\* selector alias; the empty list when only the first would be in it
method_sentences(c) ==
    LET prods == [k \in 1..Len(c.methods) |-> production(c.methods[k])]
        rules == [k \in 1..Len(c.methods) |-> method_rule(c.methods[k])]
        failed(msg) == [NoSentences EXCEPT !.st = "raised", !.err = "ValueError", !.msg = msg]
    IN  IF \E k \in 1..Len(prods) : prods[k].st = "raised"
        THEN failed(prods[FirstRaised(prods)].msg)
        ELSE IF \E k \in 1..Len(rules) : rules[k].st = "raised"
        THEN failed(rules[FirstRaised(rules)].msg)
        ELSE [st |-> "value", err |-> "", msg |-> <<>>,
              application |-> Len(c.methods) > 0,
              productions |-> prods,
              rules |-> SelectPositions(rules, [k \in 1..Len(rules) |-> rules[k].st = "value"], 1),
              aliases |-> [k \in 1..Len(c.methods) |->
                              <<c.methods[k].signature, c.methods[k].id>>]]

(***************************************************************************)
(* Contract.method_by_name and Contract.digest.                            *)
(***************************************************************************)
\* Contract.method_by_name, lines 305-311: the filter compares with 'setUp',
\* whatever the name; method holds the returned method, if any
method_by_name(c, name) ==
    LET methods == SelectPositions(c.methods,
                       [k \in 1..Len(c.methods) |-> c.methods[k].name = <<"s", "e", "t", "U", "p">>], 1)
    IN  IF Len(methods) > 1 THEN [st |-> "raised", name |-> name, method |-> <<>>]
        ELSE IF methods = <<>> THEN [st |-> "None", name |-> name, method |-> <<>>]
        ELSE [st |-> "value", name |-> name, method |-> <<methods[1]>>]

\* sort_keys=True: the items of a dict in ascending order of key
RECURSIVE InsertByKey(_, _)
InsertByKey(sorted, item) ==
    IF sorted = <<>> THEN <<item>>
    ELSE IF StrLess(item[1], Head(sorted)[1]) THEN <<item>> \o sorted
    ELSE <<Head(sorted)>> \o InsertByKey(Tail(sorted), item)

RECURSIVE SortKeys(_)
SortKeys(items) ==
    IF items = <<>> THEN <<>>
    ELSE InsertByKey(SortKeys(SubSeq(items, 1, Len(items) - 1)), items[Len(items)])

\* the dict under deployedBytecode, as json.dumps writes it
JsonDeployedBytecode(json) ==
    SortKeys(<<<<<<"o", "b", "j", "e", "c", "t">>, json.object>>>>
                 \o (IF json.sourceMap.some THEN <<<<<<"s", "o", "u", "r", "c", "e", "M", "a", "p">>, json.sourceMap.text>>>>
                     ELSE <<>>))

\* the value the artifact holds under one of its top-level keys, as
\* json.dumps writes it: the keys of every dict inside it sorted too
JsonValue(json, key) ==
    CASE key = <<"i", "d">> -> json.id.val
      [] key = <<"a", "s", "t">> -> IF json.ast.absolutePath.some
                          THEN <<<<<<"a", "b", "s", "o", "l", "u", "t", "e", "P", "a", "t", "h">>, json.ast.absolutePath.text>>>>
                          ELSE <<>>
      [] key = <<"a", "b", "i">> -> json.abi
      [] key = <<"e", "v", "m">> ->
             SortKeys(<<<<<<"m", "e", "t", "h", "o", "d", "I", "d", "e", "n", "t", "i", "f", "i", "e", "r", "s">>, SortKeys(json.methodIdentifiers)>>,
                        <<<<"d", "e", "p", "l", "o", "y", "e", "d", "B", "y", "t", "e", "c", "o", "d", "e">>, JsonDeployedBytecode(json)>>>>)
      [] key = <<"d", "e", "p", "l", "o", "y", "e", "d", "B", "y", "t", "e", "c", "o", "d", "e">> -> JsonDeployedBytecode(json)
      [] key = <<"m", "e", "t", "h", "o", "d", "I", "d", "e", "n", "t", "i", "f", "i", "e", "r", "s">> -> SortKeys(json.methodIdentifiers)
      [] key = <<"s", "t", "o", "r", "a", "g", "e", "L", "a", "y", "o", "u", "t">> -> <<<<<<"s", "t", "o", "r", "a", "g", "e">>, json.storage.entries>>>>

\* the top-level keys of the artifact
JsonKeys(json) ==
    (IF json.id.some THEN <<<<"i", "d">>>> ELSE <<>>)
        \o (IF json.ast.some THEN <<<<"a", "s", "t">>>> ELSE <<>>)
        \o <<<<"a", "b", "i">>>>
        \o (IF json.layout = "evm" THEN <<<<"e", "v", "m">>>>
            ELSE <<<<"d", "e", "p", "l", "o", "y", "e", "d", "B", "y", "t", "e", "c", "o", "d", "e">>, <<"m", "e", "t", "h", "o", "d", "I", "d", "e", "n", "t", "i", "f", "i", "e", "r", "s">>>>)
        \o (IF json.storage.some THEN <<<<"s", "t", "o", "r", "a", "g", "e", "L", "a", "y", "o", "u", "t">>>> ELSE <<>>)

\* the orders in which the keys of the loaded artifact are held
KeyOrders(json) ==
    LET keys == JsonKeys(json)
    IN  {keys, [k \in 1..Len(keys) |-> keys[Len(keys) + 1 - k]]}

\* the items of the dict, in its order
JsonItems(json, order) == [k \in 1..Len(order) |-> <<order[k], JsonValue(json, order[k])>>]

\* json.dumps(contract_json, sort_keys=True), as the items it writes
JsonDumps(json, order) == SortKeys(JsonItems(json, order))

\* pyk.utils.hash_str: a hash without collisions, identified with the text
\* hashed, here f'{name} - {dumps}' as the pair of its two parts
hash_str(name, dumps) == [st |-> "value", name |-> name, items |-> dumps]

\* Contract.digest, lines 169-171
contract_digest(name, json, order) == hash_str(name, JsonDumps(json, order))

(***************************************************************************)
(* SpecContract: a contract is constructed from an artifact and its method *)
(* sentences are read.                                                     *)
(***************************************************************************)
MaxMethods == 2     \* entries of the ABI
MaxFields == 2      \* entries of the storage layout

Input(name, t) == [name |-> name, type |-> t, components |-> <<>>]
Function(name, inputs, mutability) ==
    [type |-> "function", name |-> name, inputs |-> inputs, stateMutability |-> mutability]

AbiEntries ==
    { Function(<<"f">>, <<Input(<<"x">>, <<"u", "i", "n", "t", "2", "5", "6">>)>>, "nonpayable"),
      Function(<<"f">>, <<Input(<<"x">>, <<"u", "i", "n", "t", "9">>)>>, "nonpayable"),
      Function(<<"f">>, <<Input(<<"x">>, <<"u", "i", "n", "t", "2", "5", "5">>), Input(<<"y">>, <<"b", "o", "o", "l">>)>>, "view"),
      Function(<<"g">>, <<Input(<<"y">>, <<"i", "n", "t", "8">>)>>, "view"),
      Function(<<"g">>, <<Input(<<"a", "-", "b">>, <<"u", "i", "n", "t", "2", "5", "6", "[", "]">>), Input(<<>>, <<"u", "i", "n", "t", "8">>)>>, "pure"),
      Function(<<"h">>, <<Input(<<"a">>, <<"a", "d", "d", "r", "e", "s", "s">>), Input(<<"b">>, <<"b", "y", "t", "e", "s">>)>>, "payable"),
      Function(<<"h">>, <<[name |-> <<"t">>, type |-> <<"t", "u", "p", "l", "e", "[", "]">>,
                         components |-> <<Input(<<"a">>, <<"u", "i", "n", "t", "2", "5", "6">>)>>],
                        Input(<<"z">>, <<"u", "i", "n", "t", "9">>)>>, "nonpayable"),
      Function(<<"k">>, <<>>, "nonpayable"),
      Function(<<"s", "e", "t", "U", "p">>, <<>>, "nonpayable"),
      Function(<<"s", "e", "t", "U", "p">>, <<Input(<<"x">>, <<"u", "i", "n", "t", "2", "5", "6">>)>>, "nonpayable"),
      Function(<<"k">>, <<Input(<<"s">>, <<"s", "t", "r", "i", "n", "g">>), Input(<<"b">>, <<"b", "y", "t", "e", "s", "8">>)>>, "nonpayable"),
      [type |-> "event", name |-> <<"E">>, inputs |-> <<Input(<<"x">>, <<"u", "i", "n", "t", "2", "5", "6">>)>>,
       stateMutability |-> ""] }

Abis == SeqsUpTo(AbiEntries, MaxMethods)

SelectorTexts == <<<<"a", "9">>, <<"1", "f">>, <<"0", "c">>>>

\* the identifier table solc writes for the functions of an ABI
RECURSIVE Identifiers(_, _)
Identifiers(abi, k) ==
    IF k > Len(abi) THEN <<>>
    ELSE LET sig == method_sig_from_abi(abi[k]).val
             rest == Identifiers(abi, k + 1)
         IN  IF abi[k].type # "function" \/ method_sig_from_abi(abi[k]).st = "raised"
                    \/ (\E j \in 1..Len(rest) : rest[j][1] = sig)
             THEN rest
             ELSE <<<<sig, SelectorTexts[k]>>>> \o rest

StorageEntries == {<<<<"x">>, <<"0">>>>, <<<<"x">>, <<"1">>>>, <<<<"y">>, <<"1">>>>}

Storages ==
    {[some |-> FALSE, entries |-> <<>>]} \cup
    {[some |-> TRUE, entries |-> q] : q \in SeqsUpTo(StorageEntries, MaxFields)}

\* an artifact as solc writes it: id 0, path C.sol, the evm layout
Artifact(abi, ids, sourceMap, storage) ==
    [id |-> [some |-> TRUE, val |-> 0],
     ast |-> [some |-> TRUE, absolutePath |-> SomeText(<<"C", ".", "s", "o", "l">>)],
     layout |-> "evm",
     abi |-> abi, methodIdentifiers |-> ids, object |-> <<"0", "x", "6", "0", "0", "0">>,
     sourceMap |-> sourceMap, storage |-> storage]

\* the artifacts of an ABI: the identifier table is solc's or lacks its
\* first signature
ArtifactsOf(a, storages) ==
    {Artifact(a, ids, sm, st) :
        ids \in {Identifiers(a, 1), Tail(Identifiers(a, 1) \o <<<<<<"n", "o", "n", "e", "(", ")">>, <<"0", "0">>>>>>)},
        sm \in {NoText, SomeText(<<"1", ":", "2", ":", "0">>)},
        st \in storages}

\* one artifact with its identifier table in the other order, with another
\* id or path, without id, ast or absolutePath, and in the foundry layout
ArtifactVariants ==
    LET abi == <<Function(<<"f">>, <<Input(<<"x">>, <<"u", "i", "n", "t", "2", "5", "6">>)>>, "nonpayable"),
                 Function(<<"g">>, <<Input(<<"y">>, <<"i", "n", "t", "8">>)>>, "view")>>
        ids == Identifiers(abi, 1)
        base == Artifact(abi, ids, NoText, [some |-> FALSE, entries |-> <<>>])
    IN  { [base EXCEPT !.methodIdentifiers = [k \in 1..Len(ids) |-> ids[Len(ids) + 1 - k]]],
          [base EXCEPT !.id = [some |-> TRUE, val |-> 7]],
          [base EXCEPT !.id = [some |-> FALSE, val |-> 0]],
          [base EXCEPT !.ast = [some |-> FALSE, absolutePath |-> NoText]],
          [base EXCEPT !.ast = [some |-> TRUE, absolutePath |-> NoText]],
          [base EXCEPT !.ast = [some |-> TRUE, absolutePath |-> SomeText(<<"D", ".", "s", "o", "l">>)]],
          [base EXCEPT !.layout = "top"] }

\* every ABI without a storage layout, one ABI with every storage layout,
\* and the variants of one artifact
Artifacts ==
    ArtifactVariants \cup
    UNION {ArtifactsOf(a, {[some |-> FALSE, entries |-> <<>>]}) : a \in Abis}
        \cup ArtifactsOf(<<Function(<<"f">>, <<Input(<<"x">>, <<"u", "i", "n", "t", "2", "5", "6">>)>>, "nonpayable")>>, Storages)

ContractNames == {<<"C">>, <<"D">>}

MethodNames == {<<"f">>, <<"k">>, <<"s", "e", "t", "U", "p">>, <<"n", "o", "n", "e">>}

InitContract ==
    /\ ph = "new"
    /\ contract_json \in Artifacts
    /\ contract = NoContract
    /\ sentences = NoSentences
    /\ by_name = NoLookup /\ digest = NoDigest
    /\ bytecode = <<>> /\ raw_sourcemap = NoText
    /\ bs = <<>> /\ pc = 0 /\ instr = 0 /\ instr_to_pc = <<>> /\ srcmap = Unset
    /\ type_label = <<>> /\ sort_res = NoSort /\ rp_res = NoRangePredicate
    /\ method_json = NoMethod /\ msig = NoSig
    /\ cache_log = NoLog

\* Contract(contract_name, contract_json, foundry)
Construct ==
    /\ ph = "new"
    /\ \E contract_name \in ContractNames : \E foundry \in BOOLEAN :
           contract' = ContractInit(contract_name, contract_json, foundry)
    /\ ph' = IF contract'.st = "built" THEN "built" ELSE "failed"
    /\ bytecode' = contract'.bytecode
    /\ raw_sourcemap' = contract'.raw_sourcemap
    /\ UNCHANGED <<scanVars, srcmap, typeVars, sigVars, contract_json, sentences,
                   by_name, digest>>
    /\ UNCHANGED cache_log

\* a read of Contract.method_sentences
MethodSentences ==
    /\ ph = "built"
    /\ sentences.st = "unset"
    /\ sentences' = method_sentences(contract)
    /\ UNCHANGED <<ph, bytecode, raw_sourcemap, scanVars, srcmap, typeVars, sigVars,
                   contract_json, contract, by_name, digest>>
    /\ UNCHANGED cache_log

\* a call Contract.method_by_name(name)
MethodByName ==
    /\ ph = "built"
    /\ by_name.st = "unset"
    /\ \E name \in MethodNames : by_name' = method_by_name(contract, name)
    /\ UNCHANGED <<ph, bytecode, raw_sourcemap, scanVars, srcmap, typeVars, sigVars,
                   contract_json, contract, sentences, digest>>
    /\ UNCHANGED cache_log

\* the first read of the cached Contract.digest; the artifact was loaded
\* with its keys in some order
Digest ==
    /\ ph = "built"
    /\ digest.st = "unset"
    /\ \E order \in KeyOrders(contract_json) :
           digest' = contract_digest(contract.name, contract_json, order)
    /\ UNCHANGED <<ph, bytecode, raw_sourcemap, scanVars, srcmap, typeVars, sigVars,
                   contract_json, contract, sentences, by_name>>
    /\ cache_log' = [cache_log EXCEPT !.digest_runs = @ + 1, !.digest_reads = @ + 1]

NextContract == Construct \/ MethodSentences \/ MethodByName \/ Digest

SpecContract == InitContract /\ [][NextContract]_vars

(***************************************************************************)
(* SpecReads: a contract is constructed and then read, every property any  *)
(* number of times up to MaxReads.  digest and srcmap are                  *)
(* functools.cached_property: the body runs on a read that finds no stored *)
(* value, and its value is stored when it returns; a body that raises      *)
(* stores nothing.                                                         *)
(***************************************************************************)
MaxReads == 3       \* reads of each cached property

ReadAbis ==
    { <<Function(<<"f">>, <<Input(<<"x">>, <<"u", "i", "n", "t", "2", "5", "6">>)>>, "nonpayable")>>,
      <<Function(<<"s", "e", "t", "U", "p">>, <<>>, "nonpayable"), Function(<<"k">>, <<>>, "nonpayable")>>,
      <<Function(<<"h">>, <<Input(<<"a">>, <<"a", "d", "d", "r", "e", "s", "s">>), Input(<<"b">>, <<"b", "y", "t", "e", "s">>)>>, "payable"),
        Function(<<"f">>, <<Input(<<"x">>, <<"u", "i", "n", "t", "2", "5", "5">>), Input(<<"y">>, <<"b", "o", "o", "l">>)>>, "view")>>,
      \* two overloads that differ in the component type of a tuple argument
      <<Function(<<"f">>, <<[name |-> <<"t">>, type |-> <<"t", "u", "p", "l", "e">>,
                          components |-> <<Input(<<"a">>, <<"u", "i", "n", "t", "2", "5", "6">>)>>]>>, "nonpayable"),
        Function(<<"f">>, <<[name |-> <<"t">>, type |-> <<"t", "u", "p", "l", "e">>,
                          components |-> <<Input(<<"a">>, <<"a", "d", "d", "r", "e", "s", "s">>)>>]>>, "nonpayable")>>,
      \* array sizes that are no numbers
      <<Function(<<"f">>, <<Input(<<"x">>, <<"u", "i", "n", "t", "2", "5", "6">>)>>, "nonpayable"),
        Function(<<"g">>, <<Input(<<"y">>, <<"u", "i", "n", "t", "8", "[", "y", "]">>)>>, "nonpayable")>>,
      <<Function(<<"f">>, <<[name |-> <<"t">>, type |-> <<"t", "u", "p", "l", "e", "[", "x", "]">>,
                          components |-> <<Input(<<"a">>, <<"u", "i", "n", "t", "8", "[", "y", "]">>)>>]>>, "nonpayable"),
        Function(<<"k">>, <<>>, "nonpayable")>> }

\* artifacts whose bytecode or source map may be malformed
ReadArtifacts ==
    {[Artifact(a, Identifiers(a, 1), sm, [some |-> FALSE, entries |-> <<>>])
         EXCEPT !.object = o] :
        a \in ReadAbis,
        sm \in {NoText, SomeText(<<"1", ":", "2", ":", "0">>), SomeText(<<"x">>)},
        o \in {<<"0", "x", "6", "0", "0", "0">>, <<"0", "x", "g", "0">>}}

InitReads ==
    /\ ph = "new"
    /\ contract_json \in ReadArtifacts
    /\ contract = NoContract
    /\ sentences = NoSentences
    /\ by_name = NoLookup /\ digest = NoDigest
    /\ bytecode = <<>> /\ raw_sourcemap = NoText
    /\ bs = <<>> /\ pc = 0 /\ instr = 0 /\ instr_to_pc = <<>> /\ srcmap = Unset
    /\ type_label = <<>> /\ sort_res = NoSort /\ rp_res = NoRangePredicate
    /\ method_json = NoMethod /\ msig = NoSig
    /\ cache_log = NoLog

\* a later read of Contract.digest: the stored value is returned
DigestAgain ==
    /\ ph = "built"
    /\ digest.st = "value"
    /\ cache_log.digest_reads < MaxReads
    /\ cache_log' = [cache_log EXCEPT !.digest_reads = @ + 1]
    /\ UNCHANGED <<ph, bytecode, raw_sourcemap, scanVars, srcmap, typeVars, sigVars,
                   contractVars>>

\* a later read of Contract.srcmap: the stored value is returned; after a
\* read that raised there is no stored value and the body, lines 175-208,
\* runs again
SrcmapAgain ==
    /\ ph = "built"
    /\ srcmap.st # "unset"
    /\ cache_log.srcmap_reads < MaxReads
    /\ IF srcmap.st = "value"
       THEN /\ cache_log' = [cache_log EXCEPT !.srcmap_reads = @ + 1]
            /\ UNCHANGED <<srcmap, scanVars>>
       ELSE /\ cache_log' = [cache_log EXCEPT !.srcmap_runs = @ + 1, !.srcmap_reads = @ + 1]
            /\ srcmap' = SrcmapValue(bytecode, raw_sourcemap)
            /\ IF Len(bytecode) > 0 /\ raw_sourcemap.some /\ DecodeBytes(bytecode).ok
               THEN LET bytes == DecodeBytes(bytecode).val
                        st == ScanLoop(bytes, ScanStart)
                    IN  /\ bs' = bytes
                        /\ pc' = st.pc
                        /\ instr' = st.instr
                        /\ instr_to_pc' = st.instr_to_pc
               ELSE UNCHANGED scanVars
    /\ UNCHANGED <<ph, bytecode, raw_sourcemap>>
    /\ UNCHANGED <<typeVars, sigVars, contractVars>>

\* a later call Contract.method_by_name(name)
MethodByNameAgain ==
    /\ ph = "built"
    /\ by_name.st # "unset"
    /\ \E name \in MethodNames : by_name' = method_by_name(contract, name)
    /\ UNCHANGED <<ph, bytecode, raw_sourcemap, scanVars, srcmap, typeVars, sigVars,
                   contract_json, contract, sentences, digest, cache_log>>

NextReads ==
    \/ Construct
    \/ Digest
    \/ DigestAgain
    \/ Srcmap
    \/ SrcmapAgain
    \/ MethodSentences
    \/ MethodByName
    \/ MethodByNameAgain

SpecReads == InitReads /\ [][NextReads]_vars

(***************************************************************************)
(* C1.  Every push opcode PUSH1..PUSH32 (0x60..0x7F inclusive) recorded as *)
(* an instruction is followed by opcode - 0x5F immediate bytes that are    *)
(* skipped: none of them is recorded as the program counter of an          *)
(* instruction, and the next instruction starts right after them; every    *)
(* other opcode occupies exactly one byte.                                 *)
(***************************************************************************)
C1_PushImmediatesSkipped ==
    ph \in {"scan", "scan_done"} =>
        \A i \in DOMAIN instr_to_pc :
            LET p == instr_to_pc[i]
                b == bs[p + 1]
                width == IF b \in 96..127 THEN b - 95 ELSE 0
            IN  /\ \A q \in (p + 1)..(p + width) : q \notin Range(instr_to_pc)
                /\ (i + 1) \in DOMAIN instr_to_pc => instr_to_pc[i + 1] = p + width + 1

(***************************************************************************)
(* C2.  The decoder produces one entry per semicolon-delimited segment, in *)
(* order, and each of the five fields is inherited on its own: entry k's   *)
(* field p is the value written in segment k at position p when that       *)
(* position is present and non-empty, otherwise entry k-1's field p (0, 0, *)
(* 0, '', 0 before the first segment).  "1:2:0;;3:4:1" decodes to          *)
(* (1,2,0,'',0), (1,2,0,'',0), (3,4,1,'',0).  Decoding raises only when a  *)
(* written numeric field is no integer literal (or the bytecode no hex).   *)
(***************************************************************************)
DecoderRan == srcmap.st = "value" /\ Len(bytecode) > 0 /\ raw_sourcemap.some

C2_WrittenValue(seg, p, inherited) ==
    LET parts == Split(seg, ":")
    IN  IF p <= Len(parts) /\ parts[p] # <<>>
        THEN IF p = 4 THEN parts[p] ELSE PyInt(parts[p]).val
        ELSE inherited

C2_Example == <<"1", ":", "2", ":", "0", ";", ";", "3", ":", "4", ":", "1">>

C2_BadNumber(seg) ==
    LET parts == Split(seg, ":")
    IN  \E p \in {1, 2, 3, 5} :
            p <= Len(parts) /\ parts[p] # <<>> /\ ~PyInt(parts[p]).ok

C2_DecoderInheritsFields ==
    LET segs == Split(raw_sourcemap.text, ";")
    IN  /\ DecoderRan =>
            /\ DOMAIN srcmap.tbl = 0..(Len(segs) - 1)
            /\ \A k \in 0..(Len(segs) - 1) : \A p \in 1..5 :
                  srcmap.tbl[k][p] =
                      C2_WrittenValue(segs[k + 1], p,
                          IF k = 0 THEN DecodeStart[p] ELSE srcmap.tbl[k - 1][p])
        /\ (DecoderRan /\ raw_sourcemap.text = C2_Example) =>
            /\ srcmap.tbl[0] = <<1, 2, 0, <<>>, 0>>
            /\ srcmap.tbl[1] = <<1, 2, 0, <<>>, 0>>
            /\ srcmap.tbl[2] = <<3, 4, 1, <<>>, 0>>
        /\ srcmap.st = "raised" =>
            \/ ~DecodeBytes(bytecode).ok
            \/ \E k \in 1..Len(segs) : C2_BadNumber(segs[k])

C2_Witness ==
    /\ DecoderRan
    /\ raw_sourcemap.text = C2_Example
    /\ DOMAIN srcmap.tbl = 0..2
    /\ srcmap.tbl[1] = <<1, 2, 0, <<>>, 0>>

(***************************************************************************)
(* C3.  The table returned by Contract.srcmap is keyed by instruction      *)
(* index: every key i is an index the bytecode scan produced, and the      *)
(* value at i is the decoded entry of source-map segment i.                *)
(***************************************************************************)
C3_TableKeyedByInstruction ==
    srcmap.st = "value" =>
        \A i \in DOMAIN srcmap.tbl :
            /\ i \in DOMAIN instr_to_pc
            /\ srcmap.tbl[i] = DecodeSourceMap(raw_sourcemap.text).tbl[i]

(***************************************************************************)
(* C4.  For every uintN label (not an array) with 0 < N <= 256 and N a     *)
(* multiple of 8, the predicate generated for a term is the unsigned range *)
(* constraint of width exactly N on that term: it holds exactly for the    *)
(* integers in [0, 2^N - 1], so it fails for -1 and for 2^N.               *)
(***************************************************************************)
ValidUintWidths == {n \in 1..256 : n % 8 = 0}

C4_Values == {BigInt(neg, e, d) : neg \in BOOLEAN, e \in 0..(MaxWidth + 1), d \in {-1, 0}}

\* 0 <= v <= 2^n - 1
C4_InRange(v, n) ==
    \/ (v.exp = 0 /\ v.off = -1)
    \/ (~v.neg /\ (v.exp < n \/ (v.exp = n /\ v.off = -1)))

C4_UintRange ==
    \A n \in ValidUintWidths :
        (type_label = <<"u", "i", "n", "t">> \o PyStr(n) /\ rp_res.st # "unset") =>
            /\ rp_res.st = "value"
            /\ rp_res.pred = RangeUInt(n, Term)
            /\ \A v \in C4_Values : Holds(rp_res.pred, v) <=> C4_InRange(v, n)
            /\ Holds(rp_res.pred, BigInt(FALSE, 0, -1))
            /\ Holds(rp_res.pred, BigInt(FALSE, n, -1))
            /\ ~Holds(rp_res.pred, BigInt(FALSE, n, 0))
            /\ ~Holds(rp_res.pred, BigInt(TRUE, 0, 0))

C4_Witness ==
    /\ type_label = <<"u", "i", "n", "t", "2", "4", "8">>
    /\ rp_res.st = "value"
    /\ rp_res.pred.op = "rangeUInt"
    /\ ~Holds(rp_res.pred, BigInt(FALSE, 248, 0))

(***************************************************************************)
(* C5.  _evm_base_sort maps address, bool, bytes4, bytes32, int256 and     *)
(* every uintN with 0 < N <= 256, N % 8 = 0 to Int, bytes to Bytes, string *)
(* to String, and every other label that does not have the fixed-width     *)
(* form (a non-array label bytesN, intN or uintN, N any text) to K:        *)
(* arrays and tuple included.                                              *)
(***************************************************************************)
\* a non-array label made of bytes, int or uint and a width text
C5_FixedWidthForm(label) ==
    /\ ~EndsWith(label, <<"]">>)
    /\ \/ (StartsWith(label, <<"b", "y", "t", "e", "s">>) /\ label # <<"b", "y", "t", "e", "s">>)
       \/ StartsWith(label, <<"i", "n", "t">>)
       \/ StartsWith(label, <<"u", "i", "n", "t">>)

C5_IntLabels ==
    {<<"a", "d", "d", "r", "e", "s", "s">>, <<"b", "o", "o", "l">>, <<"b", "y", "t", "e", "s", "4">>, <<"b", "y", "t", "e", "s", "3", "2">>, <<"i", "n", "t", "2", "5", "6">>}
        \cup {<<"u", "i", "n", "t">> \o PyStr(n) : n \in ValidUintWidths}

C5_ClassifierMapping ==
    sort_res.st # "unset" =>
        /\ type_label \in C5_IntLabels => sort_res = [st |-> "value", sort |-> "Int", err |-> ""]
        /\ type_label = <<"b", "y", "t", "e", "s">> => sort_res = [st |-> "value", sort |-> "Bytes", err |-> ""]
        /\ type_label = <<"s", "t", "r", "i", "n", "g">> => sort_res = [st |-> "value", sort |-> "String", err |-> ""]
        /\ (type_label \notin {<<"a", "d", "d", "r", "e", "s", "s">>, <<"b", "o", "o", "l">>, <<"b", "y", "t", "e", "s">>, <<"s", "t", "r", "i", "n", "g">>}
                /\ ~C5_FixedWidthForm(type_label))
              => sort_res = [st |-> "value", sort |-> "K", err |-> ""]

C5_Witness ==
    /\ type_label = <<"u", "i", "n", "t", "2", "5", "6", "[", "]">>
    /\ sort_res.st = "value"
    /\ sort_res.sort = "K"

(***************************************************************************)
(* C6.  Classification raises exactly for the non-array labels bytesN with *)
(* N not in {4, 32}, intN with N # 256 and uintN with N outside {8, 16,    *)
(* ..., 256} (N the text after the base name; a text that is no number is  *)
(* no supported width); for every other label it returns a sort.           *)
(***************************************************************************)
C6_WidthIn(text, widths) == PyInt(text).ok /\ PyInt(text).val \in widths

C6_MustRaise(label) ==
    /\ ~EndsWith(label, <<"]">>)
    /\ \/ (StartsWith(label, <<"b", "y", "t", "e", "s">>) /\ label # <<"b", "y", "t", "e", "s">>
             /\ ~C6_WidthIn(Drop(label, 5), {4, 32}))
       \/ (StartsWith(label, <<"i", "n", "t">>) /\ ~C6_WidthIn(Drop(label, 3), {256}))
       \/ (StartsWith(label, <<"u", "i", "n", "t">>) /\ ~C6_WidthIn(Drop(label, 4), ValidUintWidths))

C6_FatalSplitExact ==
    sort_res.st # "unset" =>
        /\ sort_res.st = "raised" <=> C6_MustRaise(type_label)
        /\ sort_res.st = "value" <=> ~C6_MustRaise(type_label)
        /\ sort_res.st = "value" => sort_res.sort \in {"Int", "Bytes", "String", "K"}

C6_Witness ==
    /\ type_label = <<"u", "i", "n", "t", "9">>
    /\ sort_res.st = "raised"

(***************************************************************************)
(* C7.  The signature is name + '(' + the canonical type of each input in  *)
(* declared order joined by ',' + ')'.  A type that is no tuple passes     *)
(* through unchanged; a tuple becomes '(' + its canonicalized components   *)
(* in declared order joined by ',' + ')', at any depth, followed by its    *)
(* array suffix.  tuple(uint256, address) gives (uint256,address) and its  *)
(* dynamic array (uint256,address)[].  The suffix is compared where the    *)
(* tuples have at most one array dimension.                                *)
(***************************************************************************)
C7_IsTuple(input) == StartsWith(input.type, <<"t", "u", "p", "l", "e">>)
                         /\ (Len(input.type) = 5 \/ input.type[6] = "[")

C7_Suffix(input) == Drop(input.type, 5)

RECURSIVE C7_Nodes(_)
C7_Nodes(inputs) ==
    UNION {{inputs[k]} \cup C7_Nodes(inputs[k].components) : k \in 1..Len(inputs)}

RECURSIVE C7_Canonical(_)
C7_Canonical(input) ==
    IF C7_IsTuple(input)
    THEN <<"(">> \o Join([k \in 1..Len(input.components) |->
                             C7_Canonical(input.components[k])], <<",">>)
             \o <<")">> \o C7_Suffix(input)
    ELSE input.type

C7_OneDimension(inputs) ==
    \A n \in C7_Nodes(inputs) :
        C7_IsTuple(n) => C7_Suffix(n) \in {<<>>, <<"[", "]">>, <<"[", "2", "]">>}

C7_Pair == <<Scalar(<<"u", "i", "n", "t", "2", "5", "6">>), Scalar(<<"a", "d", "d", "r", "e", "s", "s">>)>>

C7_CanonicalSignature ==
    msig.st # "unset" =>
        /\ msig.st = "value"
        /\ C7_OneDimension(method_json.inputs) =>
              msig.val = method_json.name \o <<"(">>
                  \o Join([k \in 1..Len(method_json.inputs) |->
                              C7_Canonical(method_json.inputs[k])], <<",">>)
                  \o <<")">>
        /\ \A n \in C7_Nodes(method_json.inputs) :
              IF C7_IsTuple(n)
              THEN StartsWith(unparse_input(n).val,
                       <<"(">> \o Join([k \in 1..Len(n.components) |->
                                           unparse_input(n.components[k]).val], <<",">>)
                           \o <<")">>)
              ELSE unparse_input(n).val = n.type
        /\ unparse_input(Tuple(<<>>, C7_Pair)).val = <<"(", "u", "i", "n", "t", "2", "5", "6", ",", "a", "d", "d", "r", "e", "s", "s", ")">>
        /\ unparse_input(Tuple(<<"[", "]">>, C7_Pair)).val = <<"(", "u", "i", "n", "t", "2", "5", "6", ",", "a", "d", "d", "r", "e", "s", "s", ")", "[", "]">>

C7_Witness ==
    /\ msig.st = "value"
    /\ Len(method_json.inputs) = 2
    /\ method_json.inputs[1].type = <<"t", "u", "p", "l", "e", "[", "]">>
    /\ Len(method_json.inputs[1].components) = 2
    /\ method_json.inputs[1].components[1].type = <<"t", "u", "p", "l", "e">>
    /\ StartsWith(msig.val, <<"f", "(", "(", "(", "u", "i", "n", "t", "2", "5", "6">>)
    /\ EndsWith(msig.val, <<"[", "]", ",", "a", "d", "d", "r", "e", "s", "s", ")">>)

(***************************************************************************)
(* C8.  For a tuple input whose declared type carries an array suffix, the *)
(* canonical string is the parenthesised component list followed by the    *)
(* complete declared suffix: every dimension re-emitted in order, none     *)
(* dropped.                                                                *)
(***************************************************************************)
C8_CompleteArraySuffix ==
    msig.st = "value" =>
        \A n \in C7_Nodes(method_json.inputs) :
            C7_IsTuple(n) =>
                unparse_input(n).val =
                    <<"(">> \o Join([k \in 1..Len(n.components) |->
                                        unparse_input(n.components[k]).val], <<",">>)
                        \o <<")">> \o C7_Suffix(n)

(***************************************************************************)
(* C9.  Given an artifact with a function whose argument type is uint9 (or *)
(* any uintN with N not a multiple of 8 in 1..256), construction of the    *)
(* contract model, Contract(...), fails with a fatal error; no model is    *)
(* produced.                                                               *)
(***************************************************************************)
C9_BadUintWidth(type_label_) ==
    LET width == PyInt(Drop(type_label_, 4))
    IN  /\ StartsWith(type_label_, <<"u", "i", "n", "t">>)
        /\ width.ok
        /\ width.val \in 1..256
        /\ width.val % 8 # 0

C9_HasBadUintArgument(json) ==
    \E k \in 1..Len(json.abi) :
        /\ json.abi[k].type = "function"
        /\ \E i \in 1..Len(json.abi[k].inputs) : C9_BadUintWidth(json.abi[k].inputs[i].type)

C9_ConstructionFails ==
    (ph # "new" /\ C9_HasBadUintArgument(contract_json)) =>
        (contract.st = "raised" /\ contract.methods = <<>>)

(***************************************************************************)
(* C10.  When a method's calldata-encoding rule is generated and an        *)
(* argument's type yields no range predicate, the rule is abandoned for    *)
(* that method only: Method.rule returns no rule without raising, the      *)
(* method stays in the model's method list, construction and sentence      *)
(* generation do not fail, and every other method whose argument types all *)
(* have predicates still gets its rule.                                    *)
(* As stated (C10_AbandonedForThatMethodOnly) this fails for the types     *)
(* that yield no predicate and that the classifier rejects, such as int8   *)
(* and bytes8.  It holds of the contracts whose argument types the         *)
(* classifier accepts: C10_AbandonedWhereClassified.                       *)
(***************************************************************************)
C10_Predicate(m, i) == range_predicate(KVariable(m.arg_names[i]), m.arg_types[i])

C10_NoPredicate(m) ==
    \E i \in 1..Len(m.arg_types) :
        C10_Predicate(m, i).st = "value" /\ C10_Predicate(m, i).pred = NonePred

C10_AllPredicates(m) ==
    \A i \in 1..Len(m.arg_types) :
        C10_Predicate(m, i).st = "value" /\ C10_Predicate(m, i).pred # NonePred

C10_NoPredicateRaises(c) ==
    \A k \in 1..Len(c.methods) : \A i \in 1..Len(c.methods[k].arg_types) :
        C10_Predicate(c.methods[k], i).st = "value"

C10_ClassifierAccepts(c) ==
    \A k \in 1..Len(c.methods) : \A i \in 1..Len(c.methods[k].arg_types) :
        evm_base_sort(c.methods[k].arg_types[i]).st = "value"

C10_Functions(json) == {k \in 1..Len(json.abi) : json.abi[k].type = "function"}

\* the call passed the foundry flag that fits the layout of the artifact
C10_LayoutFits ==
    ~(contract.st = "raised" /\ contract.err = "KeyError"
        /\ contract.msg \in {PyRepr(<<"e", "v", "m">>), PyRepr(<<"d", "e", "p", "l", "o", "y", "e", "d", "B", "y", "t", "e", "c", "o", "d", "e">>)})

C10_ArtifactComplete(json) ==
    /\ json.id.some /\ json.ast.some /\ json.ast.absolutePath.some
    /\ \A k \in C10_Functions(json) :
           Lookup(json.methodIdentifiers, method_sig_from_abi(json.abi[k]).val).found
    /\ \A k \in 1..Len(json.storage.entries) : PyInt(json.storage.entries[k][2]).ok

C10_HasRule(m) ==
    \E k \in 1..Len(sentences.rules) :
        /\ sentences.rules[k].klabel = klabel(m)
        /\ sentences.rules[k].ensures = [i \in 1..Len(m.arg_types) |-> C10_Predicate(m, i).pred]

C10_Outcome ==
    /\ sentences.st = "value"
    /\ Len(sentences.productions) = Len(contract.methods)
    /\ Len(sentences.aliases) = Len(contract.methods)
    /\ \A k \in 1..Len(contract.methods) :
           /\ C10_NoPredicate(contract.methods[k]) =>
                  /\ method_rule(contract.methods[k]).st = "None"
                  /\ \A j \in 1..Len(sentences.rules) :
                         sentences.rules[j].klabel # klabel(contract.methods[k])
           /\ C10_AllPredicates(contract.methods[k]) => C10_HasRule(contract.methods[k])

\* the claim as stated
C10_AbandonedForThatMethodOnly ==
    ( /\ contract.st = "built"
      /\ sentences.st # "unset"
      /\ C10_NoPredicateRaises(contract)
      /\ \E k \in 1..Len(contract.methods) : C10_NoPredicate(contract.methods[k]) )
        => C10_Outcome

\* the claim for the contracts whose argument types the classifier accepts
C10_AbandonedWhereClassified ==
    /\ (ph # "new" /\ C10_ArtifactComplete(contract_json) /\ C10_LayoutFits) =>
           /\ contract.st = "built"
           /\ Len(contract.methods) = Cardinality(C10_Functions(contract_json))
           /\ \A k \in C10_Functions(contract_json) :
                  \E j \in 1..Len(contract.methods) :
                      contract.methods[j].signature = method_sig_from_abi(contract_json.abi[k]).val
    /\ ( /\ contract.st = "built"
         /\ sentences.st # "unset"
         /\ C10_ClassifierAccepts(contract) )
           => C10_Outcome

C10_Witness ==
    /\ contract.st = "built"
    /\ sentences.st = "value"
    /\ C10_ClassifierAccepts(contract)
    /\ Len(contract.methods) = 2
    /\ C10_AllPredicates(contract.methods[1])
    /\ C10_NoPredicate(contract.methods[2])
    /\ Len(sentences.rules) = 1
    /\ sentences.rules[1].klabel = <<"m", "e", "t", "h", "o", "d", "_", "C", "_", "f", "_", "u", "i", "n", "t", "2", "5", "6">>
    /\ sentences.rules[1].ensures = <<RangeUInt(256, KVariable(<<"V", "0", "_", "x">>))>>

(***************************************************************************)
(* C11.  Contract.method_by_name(name) finds the method by the supplied    *)
(* name: it returns the unique method of the model whose name equals the   *)
(* argument, returns nothing when no method has that name, and fails when  *)
(* more than one method has that name.                                     *)
(***************************************************************************)
C11_Named(name) == {k \in 1..Len(contract.methods) : contract.methods[k].name = name}

C11_FindsBySuppliedName ==
    by_name.st # "unset" =>
        LET named == C11_Named(by_name.name)
        IN  /\ Cardinality(named) = 1 =>
                   /\ by_name.st = "value"
                   /\ by_name.method = <<contract.methods[CHOOSE k \in named : TRUE]>>
            /\ named = {} => by_name.st = "None"
            /\ Cardinality(named) > 1 => by_name.st = "raised"

(***************************************************************************)
(* C12.  Two contract models built from structurally identical artifacts   *)
(* (the same JSON content, in any key order) have the same digest: the     *)
(* digest is a function of the artifact JSON alone and depends on nothing  *)
(* else passed to the constructor.                                         *)
(***************************************************************************)
C12_DigestOfArtifactAlone ==
    digest.st = "value" =>
        \A contract_name \in ContractNames : \A order \in KeyOrders(contract_json) :
            contract_digest(contract_name, contract_json, order) = digest

(***************************************************************************)
(* C13.  For every storage layout (a list of label/slot entries,           *)
(* duplicates allowed) the field table has each label exactly once, mapped *)
(* to the slot of the first entry carrying that label in declared order; a *)
(* later duplicate never overwrites it and never raises an error.          *)
(* [{x,0},{x,1}] yields x -> 0 only.                                       *)
(***************************************************************************)
C13_Entries == contract_json.storage.entries

C13_Labels == {C13_Entries[k][1] : k \in 1..Len(C13_Entries)}

C13_First(label) ==
    CHOOSE k \in 1..Len(C13_Entries) :
        /\ C13_Entries[k][1] = label
        /\ \A j \in 1..(k - 1) : C13_Entries[j][1] # label

C13_FirstEntryWins ==
    /\ (ph # "new" /\ contract.st = "raised") =>
           \/ contract.msg \in {PyRepr(<<"i", "d">>), PyRepr(<<"a", "s", "t">>), PyRepr(<<"a", "b", "s", "o", "l", "u", "t", "e", "P", "a", "t", "h">>),
                                 PyRepr(<<"e", "v", "m">>), PyRepr(<<"d", "e", "p", "l", "o", "y", "e", "d", "B", "y", "t", "e", "c", "o", "d", "e">>)}
           \/ CollectMethods(contract_json.abi, contract_json.methodIdentifiers,
                             contract.name, 1).st = "raised"
    /\ contract.st = "built" =>
           /\ DOMAIN contract.fields = C13_Labels
           /\ \A label \in C13_Labels :
                  contract.fields[label] = PyInt(C13_Entries[C13_First(label)][2]).val
    /\ CollectFields(<<<<<<"x">>, <<"0">>>>, <<<<"x">>, <<"1">>>>>>, <<>>) = (<<"x">> :> 0)

C13_Witness ==
    /\ contract.st = "built"
    /\ contract_json.storage.some
    /\ C13_Entries = <<<<<<"x">>, <<"1">>>>, <<<<"x">>, <<"0">>>>>>
    /\ DOMAIN contract.fields = {<<"x">>}
    /\ contract.fields[<<"x">>] = 1

(***************************************************************************)
(* C14.  The method list contains exactly one Method per ABI entry of kind *)
(* function (entries of any other kind produce none) and is sorted in      *)
(* ascending order of signature: methods[i].signature <=                   *)
(* methods[j].signature for all i < j, whatever the order of the ABI       *)
(* entries.                                                                *)
(***************************************************************************)
C14_Signatures(c) == [k \in 1..Len(c.methods) |-> c.methods[k].signature]

C14_Reversed(json) ==
    [json EXCEPT !.abi = [k \in 1..Len(json.abi) |-> json.abi[Len(json.abi) + 1 - k]]]

C14_OnePerFunctionSorted ==
    contract.st = "built" =>
        /\ Len(contract.methods) =
               Cardinality({k \in 1..Len(contract_json.abi) :
                               contract_json.abi[k].type = "function"})
        /\ \A k \in 1..Len(contract_json.abi) :
               contract_json.abi[k].type = "function" =>
                   LET sig == method_sig_from_abi(contract_json.abi[k]).val
                   IN  Cardinality({j \in 1..Len(contract.methods) :
                                       contract.methods[j].signature = sig})
                         = Cardinality({j \in 1..Len(contract_json.abi) :
                                /\ contract_json.abi[j].type = "function"
                                /\ method_sig_from_abi(contract_json.abi[j]).val = sig})
        /\ \A i \in 1..Len(contract.methods) : \A j \in (i + 1)..Len(contract.methods) :
               ~StrLess(contract.methods[j].signature, contract.methods[i].signature)
        /\ C14_Signatures(ContractInit(contract.name, C14_Reversed(contract_json),
                                       contract_json.layout = "top"))
               = C14_Signatures(contract)

C14_Witness ==
    /\ contract.st = "built"
    /\ Len(contract_json.abi) = 2
    /\ contract_json.abi[1].name = <<"h">>
    /\ contract_json.abi[2].name = <<"f">>
    /\ C14_Signatures(contract) = <<<<"f", "(", "u", "i", "n", "t", "2", "5", "5", ",", "b", "o", "o", "l", ")">>, <<"h", "(", "a", "d", "d", "r", "e", "s", "s", ",", "b", "y", "t", "e", "s", ")">>>>

(***************************************************************************)
(* C15.  The numeric id of every method is the value, parsed as            *)
(* hexadecimal, that the artifact's method-identifier table holds for the  *)
(* method's canonical signature; if the table has no entry for that        *)
(* signature, construction aborts with an error and no model is produced.  *)
(***************************************************************************)
C15_Table == contract_json.methodIdentifiers

C15_Entry(sig) == {k \in 1..Len(C15_Table) : C15_Table[k][1] = sig}

\* the selector texts of the artifacts as hexadecimal numbers
C15_Hex(text) ==
    CASE text = <<"a", "9">> -> 10 * 16 + 9
      [] text = <<"1", "f">> -> 1 * 16 + 15
      [] text = <<"0", "c">> -> 12
      [] text = <<"0", "0">> -> 0

C15_FunctionSignatures ==
    {method_sig_from_abi(contract_json.abi[k]).val :
        k \in {j \in 1..Len(contract_json.abi) : contract_json.abi[j].type = "function"}}

C15_IdFromTable ==
    /\ contract.st = "built" =>
           \A k \in 1..Len(contract.methods) :
               /\ C15_Entry(contract.methods[k].signature) # {}
               /\ \A e \in C15_Entry(contract.methods[k].signature) :
                      contract.methods[k].id = C15_Hex(C15_Table[e][2])
    /\ (ph # "new" /\ \E sig \in C15_FunctionSignatures : C15_Entry(sig) = {}) =>
           /\ ph = "failed"
           /\ contract.st = "raised"
           /\ contract.err = "KeyError"
           /\ contract.methods = <<>>

C15_Witness ==
    /\ ph = "failed"
    /\ contract.err = "KeyError"
    /\ Len(contract_json.abi) = 2
    /\ C15_Entry(<<"f", "(", "u", "i", "n", "t", "2", "5", "6", ")">>) = {}
    /\ C15_Entry(<<"h", "(", "a", "d", "d", "r", "e", "s", "s", ",", "b", "y", "t", "e", "s", ")">>) # {}

(***************************************************************************)
(* C16.  Fatal conditions (unsupported fixed-width integer/bytes type,     *)
(* missing selector) surface as an error value that identifies the         *)
(* contract, the method and the offending type string.                     *)
(***************************************************************************)
\* text occurs in msg
C16_Identifies(msg, text) ==
    \E k \in 0..(Len(msg) - Len(text)) : SubSeq(msg, k + 1, k + Len(text)) = text

\* the first method, in the order of the list, with an argument type the
\* classifier rejects, and the first such type
C16_Offending(c) ==
    LET k == CHOOSE k \in 1..Len(c.methods) :
                 /\ production(c.methods[k]).st = "raised"
                 /\ \A j \in 1..(k - 1) : production(c.methods[j]).st # "raised"
        i == CHOOSE i \in 1..Len(c.methods[k].arg_types) :
                 /\ evm_base_sort(c.methods[k].arg_types[i]).st = "raised"
                 /\ \A j \in 1..(i - 1) : evm_base_sort(c.methods[k].arg_types[j]).st # "raised"
    IN  [method |-> c.methods[k].name, type |-> c.methods[k].arg_types[i]]

\* the first function of the ABI whose signature has no selector
C16_Missing(json) ==
    LET k == CHOOSE k \in 1..Len(json.abi) :
                 /\ json.abi[k].type = "function"
                 /\ ~Lookup(json.methodIdentifiers, method_sig_from_abi(json.abi[k]).val).found
                 /\ \A j \in 1..(k - 1) :
                        json.abi[j].type = "function" =>
                            Lookup(json.methodIdentifiers,
                                   method_sig_from_abi(json.abi[j]).val).found
    IN  json.abi[k].name

C16_FatalErrorsIdentify ==
    /\ sentences.st = "raised" =>
           /\ C16_Identifies(sentences.msg, contract.name)
           /\ C16_Identifies(sentences.msg, C16_Offending(contract).method)
           /\ C16_Identifies(sentences.msg, C16_Offending(contract).type)
    /\ (contract.st = "raised" /\ contract.err = "KeyError") =>
           /\ \E contract_name \in ContractNames : C16_Identifies(contract.msg, contract_name)
           /\ C16_Identifies(contract.msg, C16_Missing(contract_json))

(***************************************************************************)
(* C17.  For every bytecode the instruction map is dense and strictly      *)
(* increasing: its keys are exactly 0..k-1 for some k, map[0] = 0 when the *)
(* bytecode is non-empty, map[i] < map[i+1] for every consecutive pair,    *)
(* and every recorded program counter is a valid offset (< the length of   *)
(* the byte sequence).                                                     *)
(***************************************************************************)
C17_DenseIncreasing ==
    ph \in {"scan", "scan_done"} =>
        /\ DOMAIN instr_to_pc = 0..(instr - 1)
        /\ \A i \in DOMAIN instr_to_pc :
               /\ instr_to_pc[i] >= 0
               /\ instr_to_pc[i] < Len(bs)
               /\ (i + 1) \in DOMAIN instr_to_pc => instr_to_pc[i] < instr_to_pc[i + 1]
        /\ (ph = "scan_done" /\ Len(bs) > 0) =>
               (0 \in DOMAIN instr_to_pc /\ instr_to_pc[0] = 0)
        /\ instr > 0 => instr_to_pc[0] = 0

C17_Witness ==
    /\ ph = "scan_done"
    /\ bytecode = <<"6", "0", "0", "0", "8", "0">> \o <<"6", "0", "0", "0", "8", "0">>
    /\ instr = 4
    /\ [i \in 1..4 |-> instr_to_pc[i - 1]] = <<0, 2, 3, 5>>

(***************************************************************************)
(* C18.  The bytecode scan terminates for every finite byte sequence,      *)
(* including one whose last push has fewer immediate bytes remaining than  *)
(* its width: the scan then stops at the end of the buffer without raising *)
(* an error and without reading past the end.                              *)
(***************************************************************************)
C18_ScanTerminates ==
    /\ <>(ph \in {"scan_done", "scan_skipped"})
    /\ [](ph # "raised")
    /\ []((ph = "scan" /\ pc < Len(bs)) => (pc + 1) \in DOMAIN bs)
    /\ [](ph = "scan_done" =>
             /\ pc >= Len(bs)
             /\ \A i \in DOMAIN instr_to_pc : (instr_to_pc[i] + 1) \in DOMAIN bs)

\* a push of two bytes with one byte left
C18_Witness ==
    /\ ph = "scan_done"
    /\ bytecode = <<"8", "0", "6", "1", "0", "0">>
    /\ instr = 2
    /\ instr_to_pc[1] = 1
    /\ pc = Len(bs) + 1

(***************************************************************************)
(* C19.  Bytecode consisting of n concatenated PUSH1 0x00 instructions     *)
(* (2n bytes) decodes to exactly n instructions whose program counters are *)
(* 0, 2, 4, ..., 2(n-1); for n = 5 these are 0, 2, 4, 6, 8.                *)
(***************************************************************************)
C19_Push1Sequence ==
    \A n \in 1..MaxReps :
        (ph = "scan_done" /\ bytecode = Repeat(<<"6", "0", "0", "0">>, n)) =>
            /\ instr = n
            /\ DOMAIN instr_to_pc = 0..(n - 1)
            /\ \A i \in 0..(n - 1) : instr_to_pc[i] = 2 * i
            /\ n = 5 => [i \in 1..5 |-> instr_to_pc[i - 1]] = <<0, 2, 4, 6, 8>>

C19_Witness ==
    /\ ph = "scan_done"
    /\ bytecode = <<"6", "0", "0", "0", "6", "0", "0", "0", "6", "0", "0", "0", "6", "0", "0", "0">> \o <<"6", "0", "0", "0">>
    /\ instr = 5
    /\ instr_to_pc[4] = 8

(***************************************************************************)
(* C20.  The range predicate generator returns, for the fixed types:       *)
(* address -> the 160-bit address range; bool -> value in {0, 1}; bytes4   *)
(* -> the packed 4-byte range; bytes32 and uint256 -> the unsigned 256-bit *)
(* range; int256 -> the signed 256-bit range [-2^255, 2^255 - 1]; dynamic  *)
(* bytes -> the unsigned 128-bit range applied to the term's length (not   *)
(* to the term itself); string -> the trivially true constraint.           *)
(***************************************************************************)
\* 0 <= v <= 2^n - 1
C20_Unsigned(v, n) == C4_InRange(v, n)

\* -2^(n-1) <= v <= 2^(n-1) - 1
C20_Signed(v, n) == C4_InRange(v, n - 1) \/ (v.neg /\ v.exp <= n - 1)

C20_Expected ==
    (<<"a", "d", "d", "r", "e", "s", "s">> :> RangeAddress(Term)) @@ (<<"b", "o", "o", "l">> :> RangeBool(Term))
        @@ (<<"b", "y", "t", "e", "s", "4">> :> RangeBytes(4, Term)) @@ (<<"b", "y", "t", "e", "s", "3", "2">> :> RangeUInt(256, Term))
        @@ (<<"u", "i", "n", "t", "2", "5", "6">> :> RangeUInt(256, Term)) @@ (<<"i", "n", "t", "2", "5", "6">> :> RangeSInt(256, Term))
        @@ (<<"b", "y", "t", "e", "s">> :> RangeUInt(128, SizeBytes(Term))) @@ (<<"s", "t", "r", "i", "n", "g">> :> KTrue)

C20_FixedTypePredicates ==
    (type_label \in DOMAIN C20_Expected /\ rp_res.st # "unset") =>
        /\ rp_res.st = "value"
        /\ rp_res.pred = C20_Expected[type_label]
        /\ \A v \in C4_Values :
               Holds(rp_res.pred, v) <=>
                   CASE type_label = <<"a", "d", "d", "r", "e", "s", "s">> -> C20_Unsigned(v, 160)
                     [] type_label = <<"b", "o", "o", "l">> ->
                            v \in {BigInt(neg, 0, -1) : neg \in BOOLEAN}
                                    \cup {BigInt(FALSE, 0, 0), BigInt(FALSE, 1, -1)}
                     [] type_label = <<"b", "y", "t", "e", "s", "4">> -> C20_Unsigned(v, 32)
                     [] type_label \in {<<"b", "y", "t", "e", "s", "3", "2">>, <<"u", "i", "n", "t", "2", "5", "6">>} -> C20_Unsigned(v, 256)
                     [] type_label = <<"i", "n", "t", "2", "5", "6">> -> C20_Signed(v, 256)
                     [] type_label = <<"b", "y", "t", "e", "s">> -> C20_Unsigned(v, 128)
                     [] type_label = <<"s", "t", "r", "i", "n", "g">> -> TRUE
        /\ type_label = <<"i", "n", "t", "2", "5", "6">> =>
               /\ Holds(rp_res.pred, BigInt(TRUE, 255, 0))
               /\ Holds(rp_res.pred, BigInt(FALSE, 255, -1))
               /\ ~Holds(rp_res.pred, BigInt(FALSE, 255, 0))
               /\ ~Holds(rp_res.pred, BigInt(TRUE, 256, -1))
        /\ type_label = <<"b", "y", "t", "e", "s">> =>
               /\ rp_res.pred.of.fn = "sizeBytes"
               /\ rp_res.pred.of # Term
        /\ type_label # <<"b", "y", "t", "e", "s">> => rp_res.pred.of \in {Term, NoTerm}

C20_Witness ==
    /\ type_label = <<"b", "y", "t", "e", "s">>
    /\ rp_res.st = "value"
    /\ rp_res.pred = RangeUInt(128, SizeBytes(Term))
    /\ ~Holds(rp_res.pred, BigInt(FALSE, 128, 0))

(***************************************************************************)
(* C21.  Labels outside the supported set.                                 *)
(***************************************************************************)
\* the labels with a fixed predicate, lines 426-437
C21_FixedLabels ==
    {<<"a", "d", "d", "r", "e", "s", "s">>, <<"b", "o", "o", "l">>, <<"b", "y", "t", "e", "s", "4">>, <<"b", "y", "t", "e", "s", "3", "2">>, <<"i", "n", "t", "2", "5", "6">>, <<"b", "y", "t", "e", "s">>, <<"s", "t", "r", "i", "n", "g">>}

\* a uintN label: the prefix uint on a label that is not an array type
C21_IsUintLabel ==
    StartsWith(type_label, <<"u", "i", "n", "t">>) /\ ~EndsWith(type_label, <<"]">>)

C21_Supported == C21_IsUintLabel \/ type_label \in C21_FixedLabels

\* C21: for every type label that is neither a uintN nor one of address,
\* bool, bytes4, bytes32, int256, bytes and string (a tuple, an array type,
\* intN with N other than 256, bytesN with N outside {4, 32}, ...), the
\* call of _range_predicate returns None and raises no error.
C21_NoPredicateOutsideSupported ==
    (rp_res.st # "unset" /\ ~C21_Supported)
        => rp_res = [st |-> "value", pred |-> NonePred, err |-> ""]

\* the call has returned None for the array type uint8[]
C21_Witness ==
    /\ type_label = <<"u", "i", "n", "t", "8", "[", "]">>
    /\ rp_res.st = "value"
    /\ rp_res.pred = NonePred

(***************************************************************************)
(* C22.  No source map.                                                    *)
(***************************************************************************)
\* C22: when the contract has no source map, reading srcmap raises no error
\* and gives the empty table, whatever the bytecode is (text that is not
\* hexadecimal included).
C22_EmptyWithoutSourceMap ==
    (~raw_sourcemap.some /\ srcmap.st # "unset")
        => srcmap = [st |-> "value", tbl |-> <<>>]

\* srcmap has been read on a contract without source map whose bytecode is
\* not hexadecimal
C22_Witness ==
    /\ bytecode = <<"g", "0", "6", "0">>
    /\ ~raw_sourcemap.some
    /\ srcmap.st = "value"
    /\ srcmap.tbl = <<>>

(***************************************************************************)
(* C23.  The payable flag.                                                 *)
(***************************************************************************)
\* the function entries of the ABI with this canonical signature
C23_Entries(sig) ==
    {j \in 1..Len(contract_json.abi) :
        /\ contract_json.abi[j].type = "function"
        /\ method_sig_from_abi(contract_json.abi[j]).val = sig}

\* C23: the payable flag of every method of a constructed contract is true
\* exactly when the stateMutability of its ABI entry is "payable"; it is
\* false for nonpayable, view and pure.
C23_PayableIffMutabilityPayable ==
    contract.st = "built" =>
        \A k \in 1..Len(contract.methods) :
            /\ C23_Entries(contract.methods[k].signature) # {}
            /\ \A j \in C23_Entries(contract.methods[k].signature) :
                   /\ contract.methods[k].payable
                          <=> contract_json.abi[j].stateMutability = "payable"
                   /\ contract_json.abi[j].stateMutability \in {"nonpayable", "view", "pure"}
                          => ~contract.methods[k].payable

\* a contract with the view function f(uint255,bool) and the payable
\* function h(address,bytes)
C23_Witness ==
    /\ contract.st = "built"
    /\ Len(contract.methods) = 2
    /\ contract.methods[1].name = <<"f">>
    /\ contract_json.abi[CHOOSE j \in C23_Entries(contract.methods[1].signature) : TRUE].stateMutability = "view"
    /\ ~contract.methods[1].payable
    /\ contract.methods[2].name = <<"h">>
    /\ contract.methods[2].payable

(***************************************************************************)
(* C24.  Argument names and types.                                         *)
(***************************************************************************)
\* 'V' + i + '_' + the declared name with every '-' replaced by '_', for the
\* input at position i + 1 of the sequence
C24_Name(i, name) ==
    <<"V">> \o PyStr(i) \o <<"_">>
        \o [k \in 1..Len(name) |-> IF name[k] = "-" THEN "_" ELSE name[k]]

\* C24: arg_names and arg_types of every method have one element per
\* declared input of its ABI entry, in declaration order: the declared type
\* string, and V<i>_<name> with '-' replaced by '_'; the argument names of a
\* method are pairwise distinct.
C24_OneNameAndTypePerInput ==
    contract.st = "built" =>
        \A k \in 1..Len(contract.methods) :
            LET m == contract.methods[k]
            IN  /\ C23_Entries(m.signature) # {}
                /\ \A j \in C23_Entries(m.signature) :
                       LET inputs == contract_json.abi[j].inputs
                       IN  /\ Len(m.arg_names) = Len(inputs)
                           /\ Len(m.arg_types) = Len(inputs)
                           /\ \A i \in 1..Len(inputs) :
                                  /\ m.arg_types[i] = inputs[i].type
                                  /\ m.arg_names[i] = C24_Name(i - 1, inputs[i].name)
                /\ \A a \in 1..Len(m.arg_names) : \A b \in 1..Len(m.arg_names) :
                       a # b => m.arg_names[a] # m.arg_names[b]

\* a contract with g(uint256[] a-b, uint8 <unnamed>)
C24_Witness ==
    /\ contract.st = "built"
    /\ \E k \in 1..Len(contract.methods) :
           /\ contract.methods[k].name = <<"g">>
           /\ contract.methods[k].arg_names = <<<<"V", "0", "_", "a", "_", "b">>, <<"V", "1", "_">>>>
           /\ contract.methods[k].arg_types = <<<<"u", "i", "n", "t", "2", "5", "6", "[", "]">>, <<"u", "i", "n", "t", "8">>>>

(***************************************************************************)
(* C25.  Reads of a constructed contract.                                  *)
(***************************************************************************)
\* C25: once the contract is constructed, in every step of every sequence
\* of reads (digest, srcmap, method_sentences with the method rules,
\* method_by_name): the bodies of digest and of srcmap have each run at
\* most once, a read of digest or srcmap after the first returns what the
\* first returned, and name, bytecode, methods and fields of the contract
\* are left as they are.
C25_ComputedOnceReadsPure ==
    [][ph = "built" =>
           /\ cache_log'.digest_runs <= 1
           /\ cache_log'.srcmap_runs <= 1
           /\ digest.st # "unset" => digest' = digest
           /\ srcmap.st # "unset" => srcmap' = srcmap
           /\ contract'.name = contract.name
           /\ contract'.bytecode = contract.bytecode
           /\ contract'.methods = contract.methods
           /\ contract'.fields = contract.fields
           /\ bytecode' = bytecode]_vars

(***************************************************************************)
(* C26.  Production labels of distinct methods.                            *)
(***************************************************************************)
\* C26: in a constructed contract, two methods with distinct canonical
\* signatures (overloads that differ only in the component types of a
\* tuple argument included) have distinct production labels, and the
\* productions generated for them are distinct.
C26_DistinctMethodsDistinctLabels ==
    contract.st = "built" =>
        \A i \in 1..Len(contract.methods) : \A j \in 1..Len(contract.methods) :
            contract.methods[i].signature # contract.methods[j].signature =>
                /\ klabel(contract.methods[i]) # klabel(contract.methods[j])
                /\ production(contract.methods[i]) # production(contract.methods[j])

(***************************************************************************)
(* C27.  The classifier and the range predicate generator.                 *)
(***************************************************************************)
\* C27: on every type label, when _evm_base_sort returns the integer, the
\* dynamic-bytes or the string sort, _range_predicate returns a predicate
\* and not None; and when _range_predicate raises, _evm_base_sort raises
\* as well.
C27_ClassifierAndPredicateAgree ==
    (sort_res.st # "unset" /\ rp_res.st # "unset") =>
        /\ (sort_res.st = "value" /\ sort_res.sort \in {"Int", "Bytes", "String"})
               => (rp_res.st = "value" /\ rp_res.pred # NonePred)
        /\ rp_res.st = "raised" => sort_res.st = "raised"

====
